---- MODULE Spec2Model ----
(***************************************************************************)
(* A model of the logger of halilertekin/logger (createLogger and its      *)
(* collaborators), written from src/src/transports/file-transport.ts.      *)
(*                                                                         *)
(* Entries are heap objects: an entry is named by its reference, the       *)
(* number of the logging call that created it, and `entries` maps each     *)
(* reference to the object's fields.  history, the listeners' and the      *)
(* transports' records, and the array a caller got from getHistory() hold  *)
(* references, as the JavaScript arrays do.                                *)
(*                                                                         *)
(* JavaScript runs one job at a time: the synchronous part of a logging    *)
(* call (log, and emit up to its first await) is one step; the settling of *)
(* a promise a transport returned is a later step.                         *)
(***************************************************************************)
EXTENDS Integers, Sequences, FiniteSets, TLC

\* ---------------------------------------------------------------- bounds
MaxCalls == 3        \* logging calls in one behaviour
MaxHistoryCfg == 2   \* largest configured maxHistory
MaxSnapLen == 3      \* longest array a caller makes of a getHistory() result
MaxLines == 3        \* lines one FileTransport accepts in one behaviour
MaxCloseCalls == 2   \* FileTransport.close() calls in one behaviour
MaxWriteErrors == 1  \* write errors the file system injects in one behaviour
MaxFilesCfg == 3     \* largest configured maxFiles
MaxFileSizeCfg == 2  \* largest configured maxFileSize (in characters)
MaxBufferSize == 2   \* largest configured bufferSize
MaxHandles == 3      \* unsubscribe handles subscribe() returns in one behaviour
MaxInvocations == 3  \* invocations of unsubscribe handles in one behaviour
MaxConsole == 3      \* writes to the console in one behaviour
MaxObjects == 2      \* objects in a metadata object graph

\* ------------------------------------------------------- the input domains
LogLevel == {"debug", "info", "warn", "error"}

LOG_LEVEL_PRIORITY == [debug |-> 0, info |-> 1, warn |-> 2, error |-> 3]

\* The configured transports, in the order of the `transports` array.  The
\* log() of t1 and t3 is synchronous, as ConsoleTransport.log is: t1's returns
\* or throws, t3's returns.  The log() of t2 is an async function, as
\* FileTransport.log is: it returns a promise that later resolves, rejects,
\* or stays pending.
transports == <<"t1", "t2", "t3">>

TransportIds == {transports[i] : i \in 1..Len(transports)}

IsAsync(t) == t = "t2"

\* The callables a caller may subscribe; l2 is one that may throw when invoked.
ListenerIds == {"l1", "l2"}

MayThrow == {"l2"}

VARIABLES
  maxHistory,    \* config.maxHistory
  minLogLevel,   \* config.minLogLevel
  entries,       \* heap of LogEntry objects, indexed by reference (= call number)
  history,       \* the internal history array (references)
  listeners,     \* the Set of listeners, in insertion order
  received,      \* per listener: the entries it was invoked with, in order
  tlog,          \* per transport: the entries its log() was invoked with, in order
  pending,       \* transport.log() promises not yet settled: <<t, e>>
  errors,        \* what the last step wrote to the error channel (console.error)
  failed,        \* what failed in the last step: the environment's record
  active,        \* per listener: was its last subscribe/unsubscribe a subscribe
  returned,      \* number of logging calls that have returned to the caller
  unhandled,     \* emit() promises that rejected (nobody handles them)
  snapshot,      \* the array the last getHistory() created
  callerArr,     \* the array the caller holds: "none", "snapshot" or "history"
  defaultMetadata,         \* config.defaultMetadata
  correlationIdGenerator,  \* config.correlationIdGenerator: "none" or "custom"
  genLog,        \* the values the custom id generator has returned, in order
  argsLog,       \* the metadata argument of each logging call, in order
  tcaps,         \* per transport: which of the optional flush / close it defines
  wrapper,       \* per transport: where logger.close()'s wrapper for it stands
  tflush,        \* per transport: its flush(): "no", "invoked", "completed", "failed"
  tclose,        \* per transport: its close(): "no", "invoked", "completed", "failed"
  closeResult,   \* the promise logger.close() returned: "idle" before the call
  maxFileSize,   \* FileTransport: options.maxFileSize
  maxFiles,      \* FileTransport: options.maxFiles
  bufferSize,    \* FileTransport: options.bufferSize
  buffer,        \* FileTransport.buffer: the pending lines, oldest first
  currentFileSize, \* FileTransport.currentFileSize
  writeStream,   \* FileTransport.writeStream: a stream of `streams`, 0 for null
  isClosed,      \* FileTransport.isClosed
  streams,       \* every fs.WriteStream created so far
  dir,           \* the directory: suffix i (0: the base path) -> file, 0 if absent
  inodes,        \* the content of every file created so far, a sequence of lines
  closeCalls,    \* the FileTransport.close() calls made so far: where each
                 \* stands (pc), whether it found the sink open, the buffer
                 \* it found, and the number of rotations after its own flush
  accepted,      \* the number of lines log() has pushed to the buffer
  rotations,     \* the number of rotateFile() runs
  writeErrors,   \* the number of write errors the file system has produced
  issuedLog,     \* the payloads handed to writeStream.write, in order
  op,            \* the operation the last step performed
  handles,       \* the unsubscribe handles returned so far: the listener of each
  invocations,   \* the handles invoked so far, in order
  prefix,        \* config.prefix, a string
  platform,      \* the platform info bound at construction, if any
  console,       \* the writes to the console so far: the stream, the text,
                 \* the attached object if any, and the entry written
  fmtArgs,       \* the arguments of the formatter call under way, if any
  fmtResult      \* what the last formatter call returned

\* The configuration and record of entry construction.
entryVars == <<defaultMetadata, correlationIdGenerator, genLog, argsLog>>

\* The state of logger.close().
closeVars == <<tcaps, wrapper, tflush, tclose, closeResult>>

\* The configuration of a FileTransport.
fileConfig == <<maxFileSize, maxFiles, bufferSize>>

\* The state of a FileTransport and of the files and streams it works on.
fileVars == <<fileConfig, buffer, currentFileSize, writeStream, isClosed,
              streams, dir, inodes, closeCalls, accepted, rotations,
              writeErrors, issuedLog, op>>

\* The unsubscribe handles the caller holds and what it did with them.
handleVars == <<handles, invocations>>

\* The console and what is written to it outside the transports' log().
consoleVars == <<prefix, platform, console>>

\* A call of a formatter.
formatVars == <<fmtArgs, fmtResult>>

\* What the emit pipeline, logger.close() and a FileTransport leave alone.
sideVars == <<handleVars, consoleVars, formatVars>>

vars == <<maxHistory, minLogLevel, entries, history, listeners, received,
          tlog, pending, errors, failed, active, returned, unhandled,
          snapshot, callerArr, entryVars, closeVars, fileVars, sideVars>>

\* ------------------------------------------------------------- helpers
Range(s) == {s[i] : i \in 1..Len(s)}

\* Set.prototype.add: an element already present keeps its place.
SetAdd(s, x) == IF x \in Range(s) THEN s ELSE Append(s, x)

SetDelete_Noop(s, x) == s

\* Set.prototype.delete
SetDelete(s, x) == SelectSeq(s, LAMBDA y : y # x)

\* ------------------------------------------------------------- createLogger
\* A metadata object: a mapping from some of the keys to values.
MetaKeys == {"a", "b"}

MetaVals == {"d", "s"}

MetadataObjects == UNION {[K -> MetaVals] : K \in SUBSET MetaKeys}

\* The metadata argument of a logging call: absent (undefined) or an object.
NoMetadata == [supplied |-> FALSE, obj |-> <<>>]

Supplied(m) == [supplied |-> TRUE, obj |-> m]

Spread_DefaultsWin(d, m) ==
  [k \in DOMAIN d \cup DOMAIN m |-> IF k \in DOMAIN d THEN d[k] ELSE m[k]]

\* { ...defaultMetadata, ...metadata }: the keys of both, a later spread
\* overwriting an earlier one.
Spread(d, m) ==
  [k \in DOMAIN d \cup DOMAIN m |-> IF k \in DOMAIN m THEN m[k] ELSE d[k]]

\* metadata ? { ...defaultMetadata, ...metadata } : defaultMetadata
\* (an object, even an empty one, is truthy).
EntryMetadata(metadata) ==
  IF metadata.supplied THEN Spread(defaultMetadata, metadata.obj)
  ELSE defaultMetadata

generateId_Memo(ret, e) ==
  IF correlationIdGenerator = "custom"
  THEN IF genLog = <<>> THEN [id |-> ret, returns |-> <<ret>>]
       ELSE [id |-> genLog[1], returns |-> <<>>]
  ELSE [id |-> e, returns |-> <<>>]

\* const generateId = correlationIdGenerator || (() => `${Date.now()}-${random}`),
\* invoked once: `ret` is what the custom generator returns on this invocation;
\* the default generator's value is a fresh one, named by the call number e.
\* `returns`: the values the custom generator returned in this invocation.
generateId(ret, e) ==
  IF correlationIdGenerator = "custom"
  THEN [id |-> ret, returns |-> <<ret>>]
  ELSE [id |-> e, returns |-> <<>>]

shouldLog_Strict(level) ==
  LOG_LEVEL_PRIORITY[level] > LOG_LEVEL_PRIORITY[minLogLevel]

shouldLog_Always(level) == TRUE

\* const shouldLog = (level) => PRIORITY[level] >= PRIORITY[minLogLevel]
shouldLog(level) ==
  LOG_LEVEL_PRIORITY[level] >= LOG_LEVEL_PRIORITY[minLogLevel]

HistoryPush_OffByOne(h, e) ==
  LET h1 == Append(h, e) IN IF Len(h1) >= maxHistory THEN Tail(h1) ELSE h1

HistoryPush_Unshift(h, e) ==
  LET h1 == <<e>> \o h IN IF Len(h1) > maxHistory THEN Tail(h1) ELSE h1

\* history.push(entry); if (history.length > maxHistory) history.shift();
HistoryPush(h, e) ==
  LET h1 == Append(h, e) IN IF Len(h1) > maxHistory THEN Tail(h1) ELSE h1

ListenerCall_NoCatch(l, e, throws) ==
  [report |-> {}, escapes |-> throws]

\* try { listener(entry) } catch (error) { console.error('[Logger] Listener error:', error) }
ListenerCall(l, e, throws) ==
  [report  |-> IF throws THEN {[kind |-> "listener", who |-> l, e |-> e]} ELSE {},
   escapes |-> FALSE]

\* listeners.forEach(...): the listeners in insertion order; an exception that
\* escapes a callback ends the iteration.  The result names the listeners
\* invoked, the reports written, and whether an exception escaped.
RECURSIVE NotifyListeners(_, _, _)
NotifyListeners(ls, e, throwers) ==
  IF ls = <<>> THEN [invoked |-> <<>>, report |-> {}, escapes |-> FALSE]
  ELSE LET c == ListenerCall(Head(ls), e, Head(ls) \in throwers) IN
       IF c.escapes
       THEN [invoked |-> <<Head(ls)>>, report |-> c.report, escapes |-> TRUE]
       ELSE LET r == NotifyListeners(Tail(ls), e, throwers) IN
            [invoked |-> <<Head(ls)>> \o r.invoked,
             report  |-> c.report \cup r.report,
             escapes |-> r.escapes]

WrapperCatch_Rethrow(t, e) == [report |-> {}, rejects |-> TRUE]

\* catch (error) { console.error('[Logger] Transport error:', error) } of the
\* wrapper around transport.log(entry): the failure is reported and the
\* wrapper's own promise still resolves.
WrapperCatch(t, e) ==
  [report |-> {[kind |-> "transport", who |-> t, e |-> e]}, rejects |-> FALSE]

\* async (transport) => { try { await transport.log(entry) } catch ... } run
\* up to its first suspension: log() has been invoked; a synchronous throw is
\* caught at once, a returned promise is awaited.
TransportCall(t, e, outcome) ==
  IF outcome = "throw"
  THEN [report |-> WrapperCatch(t, e).report, awaits |-> {},
        rejects |-> WrapperCatch(t, e).rejects]
  ELSE [report |-> {}, rejects |-> FALSE,
        awaits |-> IF outcome = "pending" THEN {<<t, e>>} ELSE {}]

\* for (const transport of transports) await transport.log(entry): what a
\* sequential fan-out would do (a pending log() holds back the transports
\* after it).
RECURSIVE SendToTransports_Sequential(_, _, _)
SendToTransports_Sequential(ts, e, out) ==
  IF ts = <<>> THEN [invoked |-> <<>>, report |-> {}, awaits |-> {}, rejects |-> FALSE]
  ELSE LET c == TransportCall(Head(ts), e, out[Head(ts)])
           r == IF c.awaits # {}
                THEN [invoked |-> <<>>, report |-> {}, awaits |-> {}, rejects |-> FALSE]
                ELSE SendToTransports_Sequential(Tail(ts), e, out)
       IN [invoked |-> <<Head(ts)>> \o r.invoked,
           report  |-> c.report \cup r.report,
           awaits  |-> c.awaits \cup r.awaits,
           rejects |-> c.rejects \/ r.rejects]

\* Promise.all(transports.map(wrapper)): map starts every wrapper, in array
\* order, before anything is awaited.
RECURSIVE SendToTransports(_, _, _)
SendToTransports(ts, e, out) ==
  IF ts = <<>> THEN [invoked |-> <<>>, report |-> {}, awaits |-> {}, rejects |-> FALSE]
  ELSE LET c == TransportCall(Head(ts), e, out[Head(ts)])
           r == SendToTransports(Tail(ts), e, out)
       IN [invoked |-> <<Head(ts)>> \o r.invoked,
           report  |-> c.report \cup r.report,
           awaits  |-> c.awaits \cup r.awaits,
           rejects |-> c.rejects \/ r.rejects]

\* const emit = async (entry) => { ... }, run up to its first suspension.
\* `rejected`: the promise emit returns is (or will be) rejected, because an
\* exception escaped the body of the async function or Promise.all rejects.
emit(e, level, throwers, out) ==
  LET h == HistoryPush(history, e)
      n == NotifyListeners(listeners, e, throwers)
  IN IF n.escapes
     THEN [history |-> h, notified |-> n.invoked, sent |-> <<>>,
           report |-> n.report, awaits |-> {}, rejected |-> TRUE]
     ELSE IF ~shouldLog(level)
     THEN [history |-> h, notified |-> n.invoked, sent |-> <<>>,
           report |-> n.report, awaits |-> {}, rejected |-> FALSE]
     ELSE LET s == SendToTransports(transports, e, out) IN
          [history |-> h, notified |-> n.invoked, sent |-> s.invoked,
           report |-> n.report \cup s.report, awaits |-> s.awaits,
           rejected |-> s.rejects]

AwaitedByLog_Await(awaits) == awaits

\* `void emit(entry)`: log() waits for none of the promises emit awaits.
AwaitedByLog(awaits) == {}

getHistory_Alias == [array |-> "history", contents |-> history]

\* getHistory: () => [...history]: a new array holding the same references.
getHistory == [array |-> "snapshot", contents |-> history]

\* ----------------------------------------------------------- environment
\* What a transport's log() may do when invoked.
Outcomes(t) ==
  IF IsAsync(t) THEN {"pending"} ELSE IF t = "t1" THEN {"ok", "throw"} ELSE {"ok"}

OutcomeChoices == {f \in [TransportIds -> {"ok", "throw", "pending"}] :
                     \A t \in TransportIds : f[t] \in Outcomes(t)}

\* No listener throws and no transport's log() throws.
QuietOutcome == [t \in TransportIds |-> IF IsAsync(t) THEN "pending" ELSE "ok"]

\* The failures the environment injects in one logging call: the listeners
\* that throw when invoked and the transports whose log() throws.
InjectedFaults(e, throwers, out, passes) ==
  {[kind |-> "listener", who |-> l, e |-> e] : l \in throwers \cap Range(listeners)}
  \cup {[kind |-> "transport", who |-> t, e |-> e] :
          t \in {x \in TransportIds : passes /\ out[x] = "throw"}}

\* The optional methods of the transports when nothing else is configured: a
\* console-like t1 and t3 (log only) and a file-like t2 (flush and close).
DefaultCaps == [t \in TransportIds |-> IF IsAsync(t) THEN {"flush", "close"} ELSE {}]

\* logger.close() has not been called.
CloseNotCalled ==
  /\ wrapper = [t \in TransportIds |-> "idle"]
  /\ tflush = [t \in TransportIds |-> "no"]
  /\ tclose = [t \in TransportIds |-> "no"]
  /\ closeResult = "idle"

\* No FileTransport has been constructed.
NoFileTransport ==
  /\ maxFileSize = 0 /\ maxFiles = 0 /\ bufferSize = 0
  /\ buffer = <<>>
  /\ currentFileSize = 0
  /\ writeStream = 0
  /\ isClosed = FALSE
  /\ streams = <<>>
  /\ dir = <<>>
  /\ inodes = <<>>
  /\ closeCalls = <<>>
  /\ accepted = 0
  /\ rotations = 0
  /\ writeErrors = 0
  /\ issuedLog = <<>>
  /\ op = "none"

\* subscribe() has returned no handle.
NoHandles == handles = <<>> /\ invocations = <<>>

\* No platform info: platformInfo is undefined.
NoPlatform == [given |-> FALSE, platform |-> "", version |-> ""]

\* The default configuration of the console: no prefix, no platform info
\* bound, nothing written.
ConsoleIdle == prefix = <<>> /\ platform = NoPlatform /\ console = <<>>

\* No formatter has been called.
NoFormatCall == fmtArgs = <<>> /\ fmtResult = <<>>

\* Nothing outside the pipeline, logger.close() and the FileTransport has
\* happened.
SideIdle == NoHandles /\ ConsoleIdle /\ NoFormatCall

\* ------------------------------------------------------------------ Init
\* createLogger(config): the state after construction.  minLogLevel "warn" is
\* the production default; maxHistory is any capacity up to MaxHistoryCfg.
Init ==
  /\ maxHistory \in 0..MaxHistoryCfg
  /\ minLogLevel = "warn"
  /\ entries = <<>>
  /\ history = <<>>
  /\ listeners = <<>>
  /\ received = [l \in ListenerIds |-> <<>>]
  /\ tlog = [t \in TransportIds |-> <<>>]
  /\ pending = {}
  /\ errors = {}
  /\ failed = {}
  /\ active = [l \in ListenerIds |-> FALSE]
  /\ returned = 0
  /\ unhandled = {}
  /\ snapshot = <<>>
  /\ callerArr = "none"
  /\ defaultMetadata = <<>>
  /\ correlationIdGenerator = "none"
  /\ genLog = <<>>
  /\ argsLog = <<>>
  /\ tcaps = DefaultCaps
  /\ CloseNotCalled
  /\ SideIdle
  /\ NoFileTransport

\* --------------------------------------------------------------- actions
\* logger.debug / info / warn / error (message, metadata): log(level, message,
\* metadata), through the synchronous part of emit.  metadata: the metadata
\* argument; ret: what the custom id generator returns; throwers: the
\* listeners that throw when invoked in this call; out: what each transport's
\* log() does.
LogCall(level, metadata, ret, throwers, out) ==
  /\ Len(entries) < MaxCalls
  /\ returned = Len(entries)
  /\ LET e == Len(entries) + 1
         g == generateId(ret, e)
         r == emit(e, level, throwers, out)
     IN /\ entries' = Append(entries, [id |-> g.id, level |-> level, message |-> "m",
                                       metadata |-> EntryMetadata(metadata)])
        /\ genLog' = genLog \o g.returns
        /\ argsLog' = Append(argsLog, metadata)
        /\ history' = r.history
        /\ received' = [l \in ListenerIds |->
                          IF l \in Range(r.notified)
                          THEN Append(received[l], e) ELSE received[l]]
        /\ tlog' = [t \in TransportIds |->
                      IF t \in Range(r.sent) THEN Append(tlog[t], e) ELSE tlog[t]]
        /\ pending' = pending \cup r.awaits
        /\ errors' = r.report
        /\ failed' = InjectedFaults(e, throwers, out,
                        LOG_LEVEL_PRIORITY[level] >= LOG_LEVEL_PRIORITY[minLogLevel])
        /\ unhandled' = IF r.rejected THEN unhandled \cup {e} ELSE unhandled
        /\ returned' = IF AwaitedByLog(r.awaits) = {} THEN returned + 1 ELSE returned
  /\ UNCHANGED <<maxHistory, minLogLevel, listeners, active, snapshot, callerArr,
                 defaultMetadata, correlationIdGenerator, closeVars, fileVars, sideVars>>

\* logger.debug / info / warn / error (message): a logging call without a
\* metadata argument.
Log(level, throwers, out) == LogCall(level, NoMetadata, "none", throwers, out)

\* logger.subscribe(listener)
Subscribe(l) ==
  /\ listeners' = SetAdd(listeners, l)
  /\ active' = [active EXCEPT ![l] = TRUE]
  /\ errors' = {}
  /\ failed' = {}
  /\ UNCHANGED <<maxHistory, minLogLevel, entries, history, received, tlog,
                 pending, returned, unhandled, snapshot, callerArr>>
  /\ UNCHANGED <<entryVars, closeVars, fileVars, sideVars>>

\* Invoking a handle subscribe(l) returned: () => listeners.delete(listener)
Unsubscribe(l) ==
  /\ l \in Range(listeners)
  /\ listeners' = SetDelete(listeners, l)
  /\ active' = [active EXCEPT ![l] = FALSE]
  /\ errors' = {}
  /\ failed' = {}
  /\ UNCHANGED <<maxHistory, minLogLevel, entries, history, received, tlog,
                 pending, returned, unhandled, snapshot, callerArr>>
  /\ UNCHANGED <<entryVars, closeVars, fileVars, sideVars>>

\* A pending transport.log() promise resolves: the wrapper's await completes.
TransportResolves(t, e) ==
  /\ <<t, e>> \in pending
  /\ pending' = pending \ {<<t, e>>}
  /\ errors' = {}
  /\ failed' = {}
  /\ UNCHANGED <<maxHistory, minLogLevel, entries, history, listeners, received,
                 tlog, active, returned, unhandled, snapshot, callerArr>>
  /\ UNCHANGED <<entryVars, closeVars, fileVars, sideVars>>

\* A pending transport.log() promise rejects: the wrapper's catch runs.
TransportRejects(t, e) ==
  /\ <<t, e>> \in pending
  /\ pending' = pending \ {<<t, e>>}
  /\ errors' = WrapperCatch(t, e).report
  /\ failed' = {[kind |-> "transport", who |-> t, e |-> e]}
  /\ unhandled' = IF WrapperCatch(t, e).rejects THEN unhandled \cup {e} ELSE unhandled
  /\ UNCHANGED <<maxHistory, minLogLevel, entries, history, listeners, received,
                 tlog, active, returned, snapshot, callerArr>>
  /\ UNCHANGED <<entryVars, closeVars, fileVars, sideVars>>

Next ==
  \/ \E level \in LogLevel, throwers \in SUBSET (Range(listeners) \cap MayThrow) :
       \E out \in OutcomeChoices : Log(level, throwers, out)
  \/ \E l \in ListenerIds : Subscribe(l)
  \/ \E l \in ListenerIds : Unsubscribe(l)
  \/ \E t \in TransportIds, e \in 1..MaxCalls : TransportResolves(t, e)
  \/ \E t \in TransportIds, e \in 1..MaxCalls : TransportRejects(t, e)

Spec == Init /\ [][Next]_vars

\* ------------------------------------------ the caller and getHistory()
\* The array the caller's reference points to.
CallerArray == IF callerArr = "history" THEN history ELSE snapshot

\* A write to the array the caller's reference points to.
SetCallerArray(v) ==
  IF callerArr = "history"
  THEN history' = v /\ snapshot' = snapshot
  ELSE snapshot' = v /\ history' = history

\* const h = logger.getHistory()
GetHistory ==
  /\ callerArr' = getHistory.array
  /\ snapshot' = IF getHistory.array = "snapshot" THEN getHistory.contents ELSE snapshot
  /\ errors' = {}
  /\ failed' = {}
  /\ UNCHANGED <<maxHistory, minLogLevel, entries, history, listeners, received,
                 tlog, pending, active, returned, unhandled>>
  /\ UNCHANGED <<entryVars, closeVars, fileVars, sideVars>>

\* h.push(x), x an entry the caller has seen
CallerPush(x) ==
  /\ callerArr # "none"
  /\ Len(CallerArray) < MaxSnapLen
  /\ SetCallerArray(Append(CallerArray, x))
  /\ errors' = {}
  /\ failed' = {}
  /\ UNCHANGED <<maxHistory, minLogLevel, entries, listeners, received, tlog,
                 pending, active, returned, unhandled, callerArr>>
  /\ UNCHANGED <<entryVars, closeVars, fileVars, sideVars>>

\* h.shift()
CallerShift ==
  /\ callerArr # "none"
  /\ CallerArray # <<>>
  /\ SetCallerArray(Tail(CallerArray))
  /\ errors' = {}
  /\ failed' = {}
  /\ UNCHANGED <<maxHistory, minLogLevel, entries, listeners, received, tlog,
                 pending, active, returned, unhandled, callerArr>>
  /\ UNCHANGED <<entryVars, closeVars, fileVars, sideVars>>

\* h.reverse()
CallerReverse ==
  /\ callerArr # "none"
  /\ Len(CallerArray) >= 2
  /\ SetCallerArray([i \in 1..Len(CallerArray) |->
                       CallerArray[Len(CallerArray) + 1 - i]])
  /\ errors' = {}
  /\ failed' = {}
  /\ UNCHANGED <<maxHistory, minLogLevel, entries, listeners, received, tlog,
                 pending, active, returned, unhandled, callerArr>>
  /\ UNCHANGED <<entryVars, closeVars, fileVars, sideVars>>

\* h[i].message = 'tampered': a write to a field of the object h[i] refers to
CallerWritesEntry(i) ==
  /\ callerArr # "none"
  /\ i \in 1..Len(CallerArray)
  /\ entries[CallerArray[i]].message # "tampered"
  /\ entries' = [entries EXCEPT ![CallerArray[i]].message = "tampered"]
  /\ errors' = {}
  /\ failed' = {}
  /\ UNCHANGED <<maxHistory, minLogLevel, history, listeners, received, tlog,
                 pending, active, returned, unhandled, snapshot, callerArr>>
  /\ UNCHANGED <<entryVars, closeVars, fileVars, sideVars>>

HistoryNext ==
  \/ \E level \in LogLevel : Log(level, {}, QuietOutcome)
  \/ GetHistory
  \/ \E x \in 1..MaxCalls : x <= Len(entries) /\ CallerPush(x)
  \/ CallerShift
  \/ CallerReverse
  \/ \E i \in 1..MaxSnapLen : CallerWritesEntry(i)

SpecHistory == Init /\ [][HistoryNext]_vars

\* ------------------------------------------------------------ logger.close()
CloseCatch_Rethrow(t, method) == [report |-> {}, rejects |-> TRUE]

\* catch (error) { console.error('[Logger] Error closing transport:', error) }
\* of the wrapper around a transport's flush() and close(): the failure is
\* reported and the wrapper's own promise still resolves.
CloseCatch(t, method) ==
  [report |-> {[kind |-> "close", who |-> t, e |-> method]}, rejects |-> FALSE]

\* The method the wrapper invokes next, having done `after` ("start": nothing
\* yet; "flush": its await of flush() completed):
\*   if (transport.flush) await transport.flush();
\*   if (transport.close) await transport.close();
NextMethod(t, after) ==
  IF after = "start" /\ "flush" \in tcaps[t] THEN "flush"
  ELSE IF "close" \in tcaps[t] THEN "close"
  ELSE "none"

\* The wrapper of transport t run from `after` up to its next suspension:
\* it invokes the next method, whose call throws (caught at once) or returns
\* a value that is awaited; with no method left the wrapper completes.
RunWrapper(t, after, outcome) ==
  LET m == NextMethod(t, after) IN
  IF m = "none"
  THEN [pc |-> "done", method |-> m, status |-> "no", report |-> {}, fault |-> {}]
  ELSE IF outcome = "throw"
  THEN [pc |-> IF CloseCatch(t, m).rejects THEN "rejected" ELSE "done",
        method |-> m, status |-> "failed",
        report |-> CloseCatch(t, m).report,
        fault |-> {[kind |-> "close", who |-> t, e |-> m]}]
  ELSE [pc |-> IF m = "flush" THEN "flushing" ELSE "closing",
        method |-> m, status |-> "invoked", report |-> {}, fault |-> {}]

\* await Promise.all(wrappers): rejected as soon as a wrapper's promise is,
\* resolved once every wrapper has completed.
PromiseAll(w) ==
  IF \E t \in TransportIds : w[t] = "rejected" THEN "rejected"
  ELSE IF \A t \in TransportIds : w[t] = "done" THEN "resolved"
  ELSE "pending"

\* logger.close(): transports.map starts every wrapper.  out: what the first
\* method invoked on each transport does, "throw" or "returns".
LoggerClose(out) ==
  /\ closeResult = "idle"
  /\ LET r == [t \in TransportIds |-> RunWrapper(t, "start", out[t])] IN
     /\ wrapper' = [t \in TransportIds |-> r[t].pc]
     /\ tflush' = [t \in TransportIds |->
                     IF r[t].method = "flush" THEN r[t].status ELSE tflush[t]]
     /\ tclose' = [t \in TransportIds |->
                     IF r[t].method = "close" THEN r[t].status ELSE tclose[t]]
     /\ errors' = UNION {r[t].report : t \in TransportIds}
     /\ failed' = UNION {r[t].fault : t \in TransportIds}
     /\ closeResult' = PromiseAll(wrapper')
  /\ UNCHANGED <<maxHistory, minLogLevel, entries, history, listeners, received,
                 tlog, pending, active, returned, unhandled, snapshot, callerArr,
                 entryVars, tcaps, fileVars, sideVars>>

\* What transport t's flush() returned settles.  ok: it resolves (or was no
\* promise); otherwise it rejects and the catch runs.  out: what close() does
\* if the wrapper goes on to invoke it.
FlushSettles(t, ok, out) ==
  /\ wrapper[t] = "flushing"
  /\ LET r == IF ok THEN RunWrapper(t, "flush", out)
              ELSE [pc |-> IF CloseCatch(t, "flush").rejects THEN "rejected" ELSE "done",
                    method |-> "none", status |-> "no",
                    report |-> CloseCatch(t, "flush").report,
                    fault |-> {[kind |-> "close", who |-> t, e |-> "flush"]}]
     IN /\ wrapper' = [wrapper EXCEPT ![t] = r.pc]
        /\ tflush' = [tflush EXCEPT ![t] = IF ok THEN "completed" ELSE "failed"]
        /\ tclose' = [tclose EXCEPT ![t] =
                        IF r.method = "close" THEN r.status ELSE tclose[t]]
        /\ errors' = r.report
        /\ failed' = r.fault
        /\ closeResult' = IF closeResult = "pending" THEN PromiseAll(wrapper')
                          ELSE closeResult
  /\ UNCHANGED <<maxHistory, minLogLevel, entries, history, listeners, received,
                 tlog, pending, active, returned, unhandled, snapshot, callerArr,
                 entryVars, tcaps, fileVars, sideVars>>

\* What transport t's close() returned settles.
CloseSettles(t, ok) ==
  /\ wrapper[t] = "closing"
  /\ wrapper' = [wrapper EXCEPT ![t] =
                   IF ~ok /\ CloseCatch(t, "close").rejects THEN "rejected" ELSE "done"]
  /\ tclose' = [tclose EXCEPT ![t] = IF ok THEN "completed" ELSE "failed"]
  /\ errors' = IF ok THEN {} ELSE CloseCatch(t, "close").report
  /\ failed' = IF ok THEN {} ELSE {[kind |-> "close", who |-> t, e |-> "close"]}
  /\ closeResult' = IF closeResult = "pending" THEN PromiseAll(wrapper')
                    ELSE closeResult
  /\ UNCHANGED <<maxHistory, minLogLevel, entries, history, listeners, received,
                 tlog, pending, active, returned, unhandled, snapshot, callerArr,
                 entryVars, tcaps, tflush, fileVars, sideVars>>

\* createLogger({ transports }): each transport defines any of flush and close.
InitClose ==
  /\ maxHistory = MaxHistoryCfg
  /\ minLogLevel = "warn"
  /\ entries = <<>>
  /\ history = <<>>
  /\ listeners = <<>>
  /\ received = [l \in ListenerIds |-> <<>>]
  /\ tlog = [t \in TransportIds |-> <<>>]
  /\ pending = {}
  /\ errors = {}
  /\ failed = {}
  /\ active = [l \in ListenerIds |-> FALSE]
  /\ returned = 0
  /\ unhandled = {}
  /\ snapshot = <<>>
  /\ callerArr = "none"
  /\ defaultMetadata = <<>>
  /\ correlationIdGenerator = "none"
  /\ genLog = <<>>
  /\ argsLog = <<>>
  /\ tcaps \in [TransportIds -> SUBSET {"flush", "close"}]
  /\ CloseNotCalled
  /\ SideIdle
  /\ NoFileTransport

MethodOutcomes == {"throw", "returns"}

CloseSettlesSome ==
  \/ \E t \in TransportIds, ok \in BOOLEAN, out \in MethodOutcomes :
       FlushSettles(t, ok, out)
  \/ \E t \in TransportIds, ok \in BOOLEAN : CloseSettles(t, ok)

CloseNext ==
  \/ \E out \in [TransportIds -> MethodOutcomes] : LoggerClose(out)
  \/ CloseSettlesSome

SpecClose == InitClose /\ [][CloseNext]_vars

\* Every value a transport's flush() or close() returned settles in the end.
SpecCloseFair == SpecClose /\ WF_vars(CloseSettlesSome)

\* ------------------------------------- entry construction: metadata and ids
\* The values a custom id generator returns; it may return the same one twice.
CustomIds == {"custom-1", "custom-2"}

\* Configured defaults carry the value "d", supplied objects the value "s".
DefaultMetadataChoices == {m \in MetadataObjects : \A k \in DOMAIN m : m[k] = "d"}

MetadataArgs ==
  {NoMetadata} \cup {Supplied(m) : m \in {x \in MetadataObjects :
                                            \A k \in DOMAIN x : x[k] = "s"}}

\* createLogger({ defaultMetadata, correlationIdGenerator, maxHistory })
InitEntry ==
  /\ maxHistory = MaxHistoryCfg
  /\ minLogLevel = "warn"
  /\ entries = <<>>
  /\ history = <<>>
  /\ listeners = <<>>
  /\ received = [l \in ListenerIds |-> <<>>]
  /\ tlog = [t \in TransportIds |-> <<>>]
  /\ pending = {}
  /\ errors = {}
  /\ failed = {}
  /\ active = [l \in ListenerIds |-> FALSE]
  /\ returned = 0
  /\ unhandled = {}
  /\ snapshot = <<>>
  /\ callerArr = "none"
  /\ defaultMetadata \in DefaultMetadataChoices
  /\ correlationIdGenerator = "custom"
  /\ genLog = <<>>
  /\ argsLog = <<>>
  /\ tcaps = DefaultCaps
  /\ CloseNotCalled
  /\ SideIdle
  /\ NoFileTransport

EntryNext ==
  \E level \in {"debug", "error"}, metadata \in MetadataArgs, ret \in CustomIds :
    LogCall(level, metadata, ret, {}, QuietOutcome)

SpecEntry == InitEntry /\ [][EntryNext]_vars

\* ------------------------------------------------- unsubscribe handles
\* logger.subscribe(listener), with the handle it returns: a closure over
\* `listener`.
SubscribeReturnsHandle(l) ==
  /\ Len(handles) < MaxHandles
  /\ listeners' = SetAdd(listeners, l)
  /\ handles' = Append(handles, l)
  /\ active' = [active EXCEPT ![l] = TRUE]
  /\ errors' = {}
  /\ failed' = {}
  /\ UNCHANGED <<maxHistory, minLogLevel, entries, history, received, tlog,
                 pending, returned, unhandled, snapshot, callerArr>>
  /\ UNCHANGED <<entryVars, closeVars, fileVars, invocations, consoleVars, formatVars>>

\* Invoking handle h, for the first time or again:
\* () => listeners.delete(listener)
InvokeHandle(h) ==
  /\ h \in 1..Len(handles)
  /\ Len(invocations) < MaxInvocations
  /\ listeners' = SetDelete(listeners, handles[h])
  /\ invocations' = Append(invocations, h)
  /\ active' = [active EXCEPT ![handles[h]] = FALSE]
  /\ errors' = {}
  /\ failed' = {}
  /\ UNCHANGED <<maxHistory, minLogLevel, entries, history, received, tlog,
                 pending, returned, unhandled, snapshot, callerArr>>
  /\ UNCHANGED <<entryVars, closeVars, fileVars, handles, consoleVars, formatVars>>

HandlesNext ==
  \/ \E l \in ListenerIds : SubscribeReturnsHandle(l)
  \/ \E h \in 1..MaxHandles : InvokeHandle(h)
  \/ \E level \in {"debug", "error"} : Log(level, {}, QuietOutcome)

SpecHandles == Init /\ [][HandlesNext]_vars

\* ------------------------------------------------- listeners that call back
\* What a listener does with the logger while it is invoked: nothing, a
\* logging call at a level, subscribe(listener), or the handle of a listener.
Deeds ==
  [kind : {"none"}, arg : {"-"}]
    \cup [kind : {"log"}, arg : {"debug", "error"}]
    \cup [kind : {"subscribe", "unsubscribe"}, arg : ListenerIds]

\* The part of the logger a logging call works on, as one record.
LoggerState ==
  [entries |-> entries, history |-> history, listeners |-> listeners,
   active |-> active, received |-> received, tlog |-> tlog, pending |-> pending]

RECURSIVE logFrom(_, _, _, _, _)
RECURSIVE emitFrom(_, _, _, _)
RECURSIVE forEach(_, _, _, _, _)

\* listener(entry): the listener records the entry and does its deed.  A
\* listener acts only on the entries of the caller's own logging calls
\* (depth 0); it acts on none that a listener logged.  A logging call it makes
\* carries its name as the message.
Listener(st, l, e, does, depth) ==
  LET st1 == [st EXCEPT !.received[l] = Append(@, e)]
      d == IF depth = 0 THEN does[l] ELSE [kind |-> "none", arg |-> "-"]
  IN CASE d.kind = "none" -> st1
       [] d.kind = "log" -> logFrom(st1, d.arg, l, does, depth + 1)
       [] d.kind = "subscribe" ->
            [st1 EXCEPT !.listeners = SetAdd(@, d.arg), !.active[d.arg] = TRUE]
       [] d.kind = "unsubscribe" ->
            [st1 EXCEPT !.listeners = SetDelete(@, d.arg), !.active[d.arg] = FALSE]

\* listeners.forEach(callback) on the live Set: `todo` are the elements the
\* iteration has yet to visit.  An element deleted before it is visited is
\* not visited; an element added during the iteration is visited, after those
\* present.
forEach(st, todo, e, does, depth) ==
  IF todo = <<>> THEN st
  ELSE LET st1 == Listener(st, Head(todo), e, does, depth)
           rest == SelectSeq(Tail(todo), LAMBDA x : x \in Range(st1.listeners))
           added == SelectSeq(st1.listeners, LAMBDA x : x \notin Range(st.listeners))
       IN forEach(st1, rest \o added, e, does, depth)

\* emit(entry) up to its first suspension, with listeners that call back: no
\* listener throws and every transport's log() behaves.
emitFrom(st, e, does, depth) ==
  LET st1 == [st EXCEPT !.history = HistoryPush(@, e)]
      st2 == forEach(st1, st1.listeners, e, does, depth)
      s == SendToTransports(transports, e, QuietOutcome)
  IN IF ~shouldLog(st.entries[e].level) THEN st2
     ELSE [st2 EXCEPT !.tlog = [t \in TransportIds |->
                                  IF t \in Range(s.invoked)
                                  THEN Append(st2.tlog[t], e) ELSE st2.tlog[t]],
                      !.pending = @ \cup s.awaits]

\* log(level, message): the entry is built and emit(entry) runs up to its
\* first suspension before log() returns.
logFrom(st, level, message, does, depth) ==
  LET e == Len(st.entries) + 1
      entry == [id |-> generateId("none", e).id, level |-> level,
                message |-> message, metadata |-> EntryMetadata(NoMetadata)]
  IN emitFrom([st EXCEPT !.entries = Append(@, entry)], e, does, depth)

\* A logging call of the caller, with what each listener does when it is
\* notified of the entry.
ReentrantLog(level, does) ==
  /\ Len(entries) < MaxCalls
  /\ returned = Len(entries)
  /\ LET r == logFrom(LoggerState, level, "m", does, 0) IN
     /\ Len(r.entries) <= MaxCalls
     /\ entries' = r.entries
     /\ history' = r.history
     /\ listeners' = r.listeners
     /\ active' = r.active
     /\ received' = r.received
     /\ tlog' = r.tlog
     /\ pending' = r.pending
     /\ argsLog' = argsLog \o [i \in 1..(Len(r.entries) - Len(entries)) |-> NoMetadata]
     /\ returned' = Len(r.entries)
  /\ errors' = {}
  /\ failed' = {}
  /\ UNCHANGED <<maxHistory, minLogLevel, unhandled, snapshot, callerArr,
                 defaultMetadata, correlationIdGenerator, genLog, closeVars,
                 fileVars, sideVars>>

ReentrantNext ==
  \/ \E level \in {"debug", "error"}, does \in [ListenerIds -> Deeds] :
       ReentrantLog(level, does)
  \/ \E l \in ListenerIds : Subscribe(l)
  \/ \E l \in ListenerIds : Unsubscribe(l)

SpecReentrant == Init /\ [][ReentrantNext]_vars

\* ------------------------------------------------------------ TextFormatter
\* A string is the sequence of its pieces; '' is the empty sequence.
\* `[${s}]`
Bracket(s) == <<"[">> \o s \o <<"]">>

\* The level values: those of LogLevel and one that is none of them.
LevelValues == LogLevel \cup {"trace"}

UPPER == [debug |-> "DEBUG", info |-> "INFO", warn |-> "WARN", error |-> "ERROR",
          trace |-> "TRACE"]

\* String.prototype.toUpperCase, on a level value
toUpperCase(level) == <<UPPER[level]>>

\* parts.filter(Boolean): the empty string is falsy
FilterBoolean(parts) == SelectSeq(parts, LAMBDA part : part # <<>>)

\* Array.prototype.join
RECURSIVE Join(_, _)
Join(parts, sep) ==
  IF parts = <<>> THEN <<>>
  ELSE IF Len(parts) = 1 THEN Head(parts)
  ELSE Head(parts) \o sep \o Join(Tail(parts), sep)

\* Object.keys(m); the keys are taken in one fixed order.
KeyOrder == <<"a", "b">>

Keys(m) == SelectSeq(KeyOrder, LAMBDA k : k \in DOMAIN m)

\* JSON.stringify(m), m an object whose values are strings
JSONStringify(m) ==
  <<"{">>
  \o Join([i \in 1..Len(Keys(m)) |->
             <<"\"", Keys(m)[i], "\"", ":", "\"", m[Keys(m)[i]], "\"">>], <<",">>)
  \o <<"}">>

MetadataSegment_Always(metadata) ==
  metadata.supplied

\* if (entry.metadata && Object.keys(entry.metadata).length > 0)
MetadataSegment(metadata) ==
  metadata.supplied /\ Len(Keys(metadata.obj)) > 0

\* TextFormatter.format(entry, platformInfo), of a formatter constructed with
\* prefix pfx
format(pfx, entry, platformInfo) ==
  LET prefixPart == IF pfx # <<>> THEN Bracket(pfx) ELSE <<>>
      levelPart == Bracket(toUpperCase(entry.level))
      parts == FilterBoolean(<<prefixPart, levelPart>>)
      formatted0 == IF Len(parts) > 0
                    THEN Join(parts, <<>>) \o <<" ">> \o entry.message
                    ELSE entry.message
      formatted1 == IF MetadataSegment(entry.metadata)
                    THEN formatted0 \o <<" ">> \o JSONStringify(entry.metadata.obj)
                    ELSE formatted0
  IN IF platformInfo.given
     THEN formatted1 \o <<" ">>
          \o Bracket(<<platformInfo.platform, "/", platformInfo.version>>)
     ELSE formatted1

Prefixes == {<<>>, <<"MyApp">>}

PlatformInfos == {NoPlatform, [given |-> TRUE, platform |-> "node", version |-> "v18"]}

Messages == {<<"Test message">>, <<"m">>}

\* The entries handed to a transport or a formatter directly.
EntryArgs ==
  [level : LevelValues, message : Messages,
   metadata : {NoMetadata} \cup {Supplied(m) : m \in MetadataObjects}]

\* A formatter is used on its own: the logger, its transports and the
\* console stay as constructed.
LoggerUnused ==
  /\ maxHistory = MaxHistoryCfg
  /\ minLogLevel = "warn"
  /\ entries = <<>>
  /\ history = <<>>
  /\ listeners = <<>>
  /\ received = [l \in ListenerIds |-> <<>>]
  /\ tlog = [t \in TransportIds |-> <<>>]
  /\ pending = {}
  /\ errors = {}
  /\ failed = {}
  /\ active = [l \in ListenerIds |-> FALSE]
  /\ returned = 0
  /\ unhandled = {}
  /\ snapshot = <<>>
  /\ callerArr = "none"
  /\ defaultMetadata = <<>>
  /\ correlationIdGenerator = "none"
  /\ genLog = <<>>
  /\ argsLog = <<>>
  /\ tcaps = DefaultCaps
  /\ CloseNotCalled
  /\ NoFileTransport
  /\ NoHandles
  /\ ConsoleIdle

\* What a formatter call leaves alone: everything but its result.
formatFrame == <<maxHistory, minLogLevel, entries, history, listeners, received,
                 tlog, pending, errors, failed, active, returned, unhandled,
                 snapshot, callerArr, entryVars, closeVars, fileVars, handleVars,
                 consoleVars, fmtArgs>>

\* new TextFormatter(pfx).format(entry, platformInfo) is about to be called.
InitTextFormat ==
  /\ LoggerUnused
  /\ fmtArgs \in [pfx : Prefixes, entry : EntryArgs, platformInfo : PlatformInfos]
  /\ fmtResult = <<>>

\* The call returns.
TextFormatCall ==
  /\ fmtResult' = format(fmtArgs.pfx, fmtArgs.entry, fmtArgs.platformInfo)
  /\ UNCHANGED formatFrame

SpecTextFormat == InitTextFormat /\ [][TextFormatCall]_vars

\* ------------------------------------------------------------ JSONFormatter
\* A metadata object graph: objects 1..MaxObjects, object 1 the metadata
\* itself; each has, under each key, no property or a value: a reference to
\* an object, undefined, a function, an Error or a string.
Objects == 1..MaxObjects

Val(kind) == [kind |-> kind, to |-> 0, text |-> ""]

Ref(n) == [kind |-> "ref", to |-> n, text |-> ""]

Str(text) == [kind |-> "string", to |-> 0, text |-> text]

Values ==
  {Val("absent"), Val("undefined"), Val("function"), Val("error"), Str("s")}
  \cup {Ref(n) : n \in Objects}

Heaps == [Objects -> [MetaKeys -> Values]]

\* Object.keys(o), o object n of heap h
OwnKeys(h, n) == SelectSeq(KeyOrder, LAMBDA k : h[n][k].kind # "absent")

\* The Error objects of the graph: name 'Error', message 'boom', stack 'at f'.
ErrorFields == [name |-> "Error", message |-> "boom", stack |-> "at f"]

Replacer_NoSeen(v, seen) ==
  IF v.kind = "error" THEN [value |-> Val("errorObject"), seen |-> seen]
  ELSE IF v.kind = "undefined" THEN [value |-> Val("null"), seen |-> seen]
  ELSE IF v.kind = "function" THEN [value |-> Str("[Function]"), seen |-> seen]
  ELSE [value |-> v, seen |-> seen]

\* The replacer safeStringify passes to JSON.stringify, with the WeakSet
\* `seen` it closes over: what it returns for value v and what `seen` is
\* afterwards.  For an Error it returns a new object { name, message, stack }.
Replacer(v, seen) ==
  IF v.kind = "error" THEN [value |-> Val("errorObject"), seen |-> seen]
  ELSE IF v.kind = "ref"
  THEN IF v.to \in seen
       THEN [value |-> Str("[Circular Reference]"), seen |-> seen]
       ELSE [value |-> v, seen |-> seen \cup {v.to}]
  ELSE IF v.kind = "undefined" THEN [value |-> Val("null"), seen |-> seen]
  ELSE IF v.kind = "function" THEN [value |-> Str("[Function]"), seen |-> seen]
  ELSE [value |-> v, seen |-> seen]

\* A place of the value JSON.parse returns: what is at a path of keys.
Leaf(type, text) == [type |-> type, text |-> text]

\* JSON.stringify's SerializeJSONProperty and SerializeJSONObject, followed
\* by JSON.parse: the text is represented by the value it denotes, the set
\* of <<path, leaf>> of its places.  v: the value found at `path`; stack: the
\* objects being serialized, on which JSON.stringify throws a TypeError when
\* it is handed one of them again; a property whose value is undefined or a
\* function after the replacer is left out.
RECURSIVE SerializeProperty(_, _, _, _, _)
RECURSIVE SerializeObject(_, _, _, _, _, _)
SerializeProperty(h, v, path, seen, stack) ==
  LET r == Replacer(v, seen) IN
  CASE r.value.kind = "ref" ->
         IF r.value.to \in stack
         THEN [out |-> {}, seen |-> r.seen, threw |-> TRUE]
         ELSE LET o == SerializeObject(h, r.value.to, OwnKeys(h, r.value.to), path,
                                        r.seen, stack \cup {r.value.to})
              IN [out |-> {<<path, Leaf("object", "")>>} \cup o.out,
                  seen |-> o.seen, threw |-> o.threw]
    [] r.value.kind = "errorObject" ->
         [out |-> {<<path, Leaf("object", "")>>}
                  \cup {<<Append(path, k), Leaf("string", ErrorFields[k])>> :
                          k \in DOMAIN ErrorFields},
          seen |-> r.seen, threw |-> FALSE]
    [] r.value.kind = "null" ->
         [out |-> {<<path, Leaf("null", "")>>}, seen |-> r.seen, threw |-> FALSE]
    [] r.value.kind = "string" ->
         [out |-> {<<path, Leaf("string", r.value.text)>>}, seen |-> r.seen,
          threw |-> FALSE]
    [] OTHER -> [out |-> {}, seen |-> r.seen, threw |-> FALSE]

SerializeObject(h, n, keys, path, seen, stack) ==
  IF keys = <<>> THEN [out |-> {}, seen |-> seen, threw |-> FALSE]
  ELSE LET first == SerializeProperty(h, h[n][Head(keys)], Append(path, Head(keys)),
                                      seen, stack)
       IN IF first.threw THEN first
          ELSE LET rest == SerializeObject(h, n, Tail(keys), path, first.seen, stack)
               IN [out |-> first.out \cup rest.out, seen |-> rest.seen,
                   threw |-> rest.threw]

\* private safeStringify(obj), obj object 1 of heap h: what it returns, or
\* that it threw.
safeStringify(h) ==
  LET r == SerializeProperty(h, Ref(1), <<>>, {}, {}) IN
  [called |-> TRUE, threw |-> r.threw, value |-> IF r.threw THEN {} ELSE r.out]

\* safeStringify(entry.metadata) is about to be called.
InitSafeStringify ==
  /\ LoggerUnused
  /\ fmtArgs \in Heaps
  /\ fmtResult = [called |-> FALSE, threw |-> FALSE, value |-> {}]

\* The call returns or throws.
SafeStringifyCall ==
  /\ fmtResult' = safeStringify(fmtArgs)
  /\ UNCHANGED formatFrame

SpecSafeStringify == InitSafeStringify /\ [][SafeStringifyCall]_vars

\* --------------------------------------------------------- ConsoleTransport
ConsoleStream_WarnToLog(level) ==
  CASE level = "error" -> "error"
    [] OTHER -> "log"

\* The switch of ConsoleTransport.log: console.error, console.warn or
\* console.log.
ConsoleStream(level) ==
  CASE level = "error" -> "error"
    [] level = "warn" -> "warn"
    [] OTHER -> "log"

\* ConsoleTransport.log(entry), of a transport constructed with a
\* TextFormatter(prefix) and the bound platform info.
CtLog(entry) ==
  /\ Len(console) < MaxConsole
  /\ console' = Append(console, [stream |-> ConsoleStream(entry.level),
                                  text |-> format(prefix, entry, platform),
                                  attached |-> <<>>,
                                  entry |-> entry])
  /\ errors' = {}
  /\ failed' = {}
  /\ UNCHANGED <<maxHistory, minLogLevel, entries, history, listeners, received,
                 tlog, pending, active, returned, unhandled, snapshot, callerArr>>
  /\ UNCHANGED <<entryVars, closeVars, fileVars, handleVars, prefix, platform,
                 formatVars>>

\* createLogger({ prefix, platformInfo }) with its ConsoleTransport.
InitConsole ==
  /\ maxHistory \in 0..MaxHistoryCfg
  /\ minLogLevel = "warn"
  /\ entries = <<>>
  /\ history = <<>>
  /\ listeners = <<>>
  /\ received = [l \in ListenerIds |-> <<>>]
  /\ tlog = [t \in TransportIds |-> <<>>]
  /\ pending = {}
  /\ errors = {}
  /\ failed = {}
  /\ active = [l \in ListenerIds |-> FALSE]
  /\ returned = 0
  /\ unhandled = {}
  /\ snapshot = <<>>
  /\ callerArr = "none"
  /\ defaultMetadata = <<>>
  /\ correlationIdGenerator = "none"
  /\ genLog = <<>>
  /\ argsLog = <<>>
  /\ tcaps = DefaultCaps
  /\ CloseNotCalled
  /\ NoFileTransport
  /\ NoHandles
  /\ NoFormatCall
  /\ prefix \in Prefixes
  /\ platform \in PlatformInfos
  /\ console = <<>>

\* The entries a ConsoleTransport is handed: of every level value, without
\* metadata or with the metadata { a: 'd' }.
ConsoleEntries ==
  {entry \in EntryArgs :
     /\ entry.message = <<"m">>
     /\ entry.metadata \in {NoMetadata, Supplied([k \in {"a"} |-> "d"])}}

ConsoleTransportNext ==
  \E entry \in ConsoleEntries : CtLog(entry)

SpecConsoleTransport == InitConsole /\ [][ConsoleTransportNext]_vars

\* ----------------------------------------------------------- flushToConsole
HistoryStream_AllLog(level) == "log"

\* if (entry.level === 'error') console.error ... else if (entry.level ===
\* 'warn') console.warn ... else console.log
HistoryStream(level) ==
  IF level = "error" THEN "error"
  ELSE IF level = "warn" THEN "warn"
  ELSE "log"

\* The body of flushToConsole's forEach, for history entry e: the console
\* call it makes.
HistoryWrite(e) ==
  LET entry == entries[e]
      prefixPart == IF prefix # <<>> THEN Bracket(prefix) ELSE <<>>
      levelPart == Bracket(toUpperCase(entry.level))
      historyTag == <<"[History]">>
      parts == FilterBoolean(<<prefixPart, levelPart, historyTag, <<entry.message>> >>)
  IN [stream |-> HistoryStream(entry.level),
      text |-> Join(parts, <<" ">>),
      attached |-> [metadata |-> entry.metadata, platform |-> platform],
      entry |-> entry]

\* logger.flushToConsole()
flushToConsole ==
  /\ Len(console) + Len(history) <= MaxConsole
  /\ console' = console \o [i \in 1..Len(history) |-> HistoryWrite(history[i])]
  /\ errors' = {}
  /\ failed' = {}
  /\ UNCHANGED <<maxHistory, minLogLevel, entries, history, listeners, received,
                 tlog, pending, active, returned, unhandled, snapshot, callerArr>>
  /\ UNCHANGED <<entryVars, closeVars, fileVars, handleVars, prefix, platform,
                 formatVars>>

FlushToConsoleNext ==
  \/ \E level \in LogLevel : Log(level, {}, QuietOutcome)
  \/ Subscribe("l1")
  \/ flushToConsole

SpecFlushToConsole == InitConsole /\ [][FlushToConsoleNext]_vars

\* ------------------------------------------------------------ FileTransport
\* The logger's variables a FileTransport never touches.
loggerRest == <<maxHistory, minLogLevel, entries, history, listeners, received,
                tlog, pending, active, returned, unhandled, snapshot, callerArr,
                entryVars, closeVars, sideVars>>

\* formatter.format(entry) + '\n': a line is named by the number of the log()
\* call that pushed it; of its text only the length matters here.
LineLength(l) == 1

\* content.length, content = buffer.join('')
RECURSIVE ContentLength(_)
ContentLength(c) ==
  IF c = <<>> THEN 0 ELSE LineLength(Head(c)) + ContentLength(Tail(c))

\* fs.createWriteStream(filePath, { flags: 'a' }): the stream is created
\* unopened; the file is opened (and created if absent) later.  queue: the
\* writes handed to it and not yet performed; waiters: the close() calls whose
\* end callback it holds.
NewStream ==
  [opened |-> FALSE, inode |-> 0, queue |-> <<>>, ended |-> FALSE,
   finished |-> FALSE, destroyed |-> FALSE, waiters |-> {}]

RECURSIVE RotateFrom_NoDelete(_, _)
RotateFrom_NoDelete(d, i) ==
  IF i < 0 THEN d
  ELSE RotateFrom_NoDelete(IF d[i] = 0 THEN d
                           ELSE [d EXCEPT ![i + 1] = d[i], ![i] = 0],
                           i - 1)

RECURSIVE RotateFrom_Ascending(_, _)
RotateFrom_Ascending(d, i) ==
  IF i < 0 THEN d
  ELSE LET j == maxFiles - 1 - i IN
       RotateFrom_Ascending(IF d[j] = 0 THEN d
                            ELSE IF j = maxFiles - 1 THEN [d EXCEPT ![j] = 0]
                            ELSE [d EXCEPT ![j + 1] = d[j], ![j] = 0],
                            i - 1)

\* The loop of rotateFile, from suffix i down to 0: an existing file at
\* suffix maxFiles - 1 is unlinked, any other is renamed to the next suffix.
RECURSIVE RotateFrom(_, _)
RotateFrom(d, i) ==
  IF i < 0 THEN d
  ELSE RotateFrom(IF d[i] = 0 THEN d
                  ELSE IF i = maxFiles - 1 THEN [d EXCEPT ![i] = 0]
                  ELSE [d EXCEPT ![i + 1] = d[i], ![i] = 0],
                  i - 1)

\* private rotateFile(): end the stream, shift the files, reset the size and
\* create a new stream.
rotateFile(st) ==
  LET ss == IF st.writeStream # 0
            THEN [st.streams EXCEPT ![st.writeStream].ended = TRUE]
            ELSE st.streams
  IN [streams |-> Append(ss, NewStream),
      writeStream |-> Len(ss) + 1,
      dir |-> RotateFrom(st.dir, maxFiles - 1),
      currentFileSize |-> 0]

NeedsRotation_AtMax(size, len) == size + len >= maxFileSize

\* if (this.currentFileSize + content.length > this.maxFileSize)
NeedsRotation(size, len) == size + len > maxFileSize

flush_KeepBuffer(buf, owner) ==
  LET cur == [streams |-> streams, writeStream |-> writeStream, dir |-> dir,
              currentFileSize |-> currentFileSize]
  IN IF buf = <<>> \/ isClosed
     THEN [buffer |-> buf, st |-> cur, issued |-> <<>>, rotated |-> FALSE,
           settled |-> "resolved"]
     ELSE LET rot == NeedsRotation(currentFileSize, ContentLength(buf))
              st1 == IF rot THEN rotateFile(cur) ELSE cur
          IN [buffer |-> buf,
              st |-> [st1 EXCEPT !.streams[st1.writeStream].queue =
                        Append(@, [lines |-> buf, owner |-> owner])],
              issued |-> <<buf>>, rotated |-> rot, settled |-> "pending"]

\* async flush(), up to the call of writeStream.write: `buf` is the buffer it
\* finds, `owner` the call whose continuation awaits the write.  settled: how
\* the returned promise stands when flush() returns.
flush(buf, owner) ==
  LET cur == [streams |-> streams, writeStream |-> writeStream, dir |-> dir,
              currentFileSize |-> currentFileSize]
  IN IF buf = <<>> \/ isClosed
     THEN [buffer |-> buf, st |-> cur, issued |-> <<>>, rotated |-> FALSE,
           settled |-> "resolved"]
     ELSE LET rot == NeedsRotation(currentFileSize, ContentLength(buf))
              st1 == IF rot THEN rotateFile(cur) ELSE cur
          IN IF st1.writeStream = 0
             THEN [buffer |-> <<>>, st |-> st1, issued |-> <<>>, rotated |-> rot,
                   settled |-> "rejected"]
             ELSE [buffer |-> <<>>,
                   st |-> [st1 EXCEPT !.streams[st1.writeStream].queue =
                             Append(@, [lines |-> buf, owner |-> owner])],
                   issued |-> <<buf>>, rotated |-> rot, settled |-> "pending"]

\* The state after a run of flush().
AfterFlush(r) ==
  /\ buffer' = r.buffer
  /\ streams' = r.st.streams
  /\ writeStream' = r.st.writeStream
  /\ dir' = r.st.dir
  /\ currentFileSize' = r.st.currentFileSize
  /\ rotations' = rotations + (IF r.rotated THEN 1 ELSE 0)
  /\ issuedLog' = issuedLog \o r.issued

ThresholdReached_Twice(n) == n >= 2 * bufferSize

ThresholdReached_Over(n) == n > bufferSize

\* if (this.buffer.length >= this.bufferSize)
ThresholdReached(n) == n >= bufferSize

LogGuard_Open == FALSE

\* if (this.isClosed) return;  in log()
LogGuard == isClosed

\* async log(entry)
FtLog ==
  /\ op' = "log"
  /\ errors' = {} /\ failed' = {}
  /\ IF LogGuard
     THEN UNCHANGED <<buffer, currentFileSize, writeStream, streams, dir,
                      rotations, issuedLog, accepted>>
     ELSE /\ accepted < MaxLines
          /\ accepted' = accepted + 1
          /\ LET buf == Append(buffer, accepted + 1) IN
             IF ThresholdReached(Len(buf))
             THEN AfterFlush(flush(buf, [kind |-> "log", k |-> 0]))
             ELSE /\ buffer' = buf
                  /\ UNCHANGED <<currentFileSize, writeStream, streams, dir,
                                 rotations, issuedLog>>
  /\ UNCHANGED <<fileConfig, isClosed, inodes, closeCalls, writeErrors, loggerRest>>

\* A call of flush() from outside the transport.
FtFlush ==
  /\ op' = "flush"
  /\ errors' = {} /\ failed' = {}
  /\ AfterFlush(flush(buffer, [kind |-> "flush", k |-> 0]))
  /\ UNCHANGED <<fileConfig, isClosed, inodes, closeCalls, accepted, writeErrors,
                 loggerRest>>

EndOnClose_Once(k, ss, ws) ==
  IF ws = 0 \/ ss[ws].finished
  THEN [streams |-> ss, writeStream |-> 0, pc |-> "resolved"]
  ELSE IF ss[ws].ended
  THEN [streams |-> ss, writeStream |-> ws, pc |-> "ending"]
  ELSE [streams |-> [ss EXCEPT ![ws].ended = TRUE, ![ws].waiters = @ \cup {k}],
        writeStream |-> ws, pc |-> "ending"]

\* close() from `this.isClosed = true` on: the flag is set and the stream, if
\* any, is ended with a callback that resolves close call k.
EndOnClose(k, ss, ws) ==
  IF ws = 0 \/ ss[ws].finished
  THEN [streams |-> ss, writeStream |-> 0, pc |-> "resolved"]
  ELSE [streams |-> [ss EXCEPT ![ws].ended = TRUE, ![ws].waiters = @ \cup {k}],
        writeStream |-> ws, pc |-> "ending"]

FtClose_FlagFirst ==
  /\ Len(closeCalls) < MaxCloseCalls
  /\ op' = "close"
  /\ errors' = {} /\ failed' = {}
  /\ LET k == Len(closeCalls) + 1
         c == EndOnClose(k, streams, writeStream)
     IN IF isClosed
        THEN /\ closeCalls' = Append(closeCalls,
                                [pc |-> "resolved", open |-> FALSE, lines |-> buffer,
                                 rot |-> rotations])
             /\ UNCHANGED <<writeStream, isClosed, streams>>
        ELSE /\ isClosed' = TRUE
             /\ streams' = c.streams
             /\ writeStream' = c.writeStream
             /\ closeCalls' = Append(closeCalls,
                                [pc |-> c.pc, open |-> TRUE, lines |-> buffer,
                                 rot |-> rotations])
  /\ UNCHANGED <<fileConfig, buffer, currentFileSize, dir, rotations, issuedLog,
                 inodes, accepted, writeErrors, loggerRest>>

\* async close(), up to its first suspension.
FtClose ==
  /\ Len(closeCalls) < MaxCloseCalls
  /\ op' = "close"
  /\ errors' = {} /\ failed' = {}
  /\ LET k == Len(closeCalls) + 1
         call(pc) == [pc |-> pc, open |-> ~isClosed, lines |-> buffer,
                      rot |-> rotations]
     IN IF isClosed
        THEN /\ closeCalls' = Append(closeCalls, call("resolved"))
             /\ UNCHANGED <<buffer, currentFileSize, writeStream, isClosed, streams,
                            dir, rotations, issuedLog>>
        ELSE IF buffer # <<>>
        THEN LET r == flush(buffer, [kind |-> "close", k |-> k]) IN
             /\ AfterFlush(r)
             /\ closeCalls' = Append(closeCalls,
                                [call(IF r.settled = "rejected" THEN "rejected"
                                      ELSE "flushing")
                                 EXCEPT !.rot = rotations'])
             /\ UNCHANGED isClosed
        ELSE LET c == EndOnClose(k, streams, writeStream) IN
             /\ isClosed' = TRUE
             /\ streams' = c.streams
             /\ writeStream' = c.writeStream
             /\ closeCalls' = Append(closeCalls, call(c.pc))
             /\ UNCHANGED <<buffer, currentFileSize, dir, rotations, issuedLog>>
  /\ UNCHANGED <<fileConfig, inodes, accepted, writeErrors, loggerRest>>

\* The file system opens stream s: it is bound to the file at the base path,
\* which is created, empty, if absent.
StreamOpens(s) ==
  /\ s \in 1..Len(streams)
  /\ ~streams[s].opened /\ ~streams[s].destroyed
  /\ op' = "open"
  /\ errors' = {} /\ failed' = {}
  /\ IF dir[0] = 0
     THEN /\ inodes' = Append(inodes, <<>>)
          /\ dir' = [dir EXCEPT ![0] = Len(inodes) + 1]
     ELSE UNCHANGED <<inodes, dir>>
  /\ streams' = [streams EXCEPT ![s].opened = TRUE, ![s].inode = dir'[0]]
  /\ UNCHANGED <<fileConfig, buffer, currentFileSize, writeStream, isClosed,
                 closeCalls, accepted, rotations, writeErrors, issuedLog, loggerRest>>

\* The oldest write queued on stream s is performed and its callback runs
\* without error: currentFileSize += content.length; resolve().  When the
\* write is that of close()'s flush, close() goes on in the same job.
WriteCompletes(s) ==
  /\ s \in 1..Len(streams)
  /\ streams[s].opened /\ ~streams[s].destroyed /\ streams[s].queue # <<>>
  /\ op' = "write"
  /\ errors' = {} /\ failed' = {}
  /\ LET w == Head(streams[s].queue)
         ss == [streams EXCEPT ![s].queue = Tail(@)]
     IN /\ inodes' = [inodes EXCEPT ![streams[s].inode] = @ \o w.lines]
        /\ currentFileSize' = currentFileSize + ContentLength(w.lines)
        /\ IF w.owner.kind = "close"
           THEN LET c == EndOnClose(w.owner.k, ss, writeStream) IN
                /\ isClosed' = TRUE
                /\ streams' = c.streams
                /\ writeStream' = c.writeStream
                /\ closeCalls' = [closeCalls EXCEPT ![w.owner.k].pc = c.pc]
           ELSE /\ streams' = ss
                /\ UNCHANGED <<isClosed, writeStream, closeCalls>>
  /\ UNCHANGED <<fileConfig, buffer, dir, accepted, rotations, writeErrors,
                 issuedLog, loggerRest>>

WriteFails_CountsSize(s) ==
  /\ s \in 1..Len(streams)
  /\ streams[s].queue # <<>>
  /\ \/ streams[s].destroyed
     \/ streams[s].opened /\ writeErrors < MaxWriteErrors
  /\ op' = "fail"
  /\ LET w == Head(streams[s].queue) IN
     /\ streams' = [streams EXCEPT ![s].queue = Tail(@), ![s].destroyed = TRUE]
     /\ errors' = {[kind |-> "write", who |-> s, e |-> w.lines]}
     /\ failed' = {[kind |-> "write", who |-> s, e |-> w.lines]}
     /\ closeCalls' = IF w.owner.kind = "close"
                      THEN [closeCalls EXCEPT ![w.owner.k].pc = "rejected"]
                      ELSE closeCalls
     /\ currentFileSize' = currentFileSize + ContentLength(w.lines)
  /\ writeErrors' = writeErrors + 1
  /\ UNCHANGED <<fileConfig, buffer, writeStream, isClosed, dir,
                 inodes, accepted, rotations, issuedLog, loggerRest>>

\* The oldest write queued on stream s fails (or the stream has been destroyed
\* by an earlier error): the callback runs with the error, which is reported
\* and rejects the promise of flush(); the stream is destroyed.
WriteFails(s) ==
  /\ s \in 1..Len(streams)
  /\ streams[s].queue # <<>>
  /\ \/ streams[s].destroyed
     \/ streams[s].opened /\ writeErrors < MaxWriteErrors
  /\ op' = "fail"
  /\ LET w == Head(streams[s].queue) IN
     /\ streams' = [streams EXCEPT ![s].queue = Tail(@), ![s].destroyed = TRUE]
     /\ errors' = {[kind |-> "write", who |-> s, e |-> w.lines]}
     /\ failed' = {[kind |-> "write", who |-> s, e |-> w.lines]}
     /\ closeCalls' = IF w.owner.kind = "close"
                      THEN [closeCalls EXCEPT ![w.owner.k].pc = "rejected"]
                      ELSE closeCalls
  /\ writeErrors' = writeErrors + 1
  /\ UNCHANGED <<fileConfig, buffer, currentFileSize, writeStream, isClosed, dir,
                 inodes, accepted, rotations, issuedLog, loggerRest>>

\* An ended stream with nothing left to write finishes; the end callbacks it
\* holds run: this.writeStream = null; resolve().
StreamEnds(s) ==
  /\ s \in 1..Len(streams)
  /\ streams[s].ended /\ ~streams[s].finished /\ streams[s].queue = <<>>
  /\ streams[s].opened \/ streams[s].destroyed
  /\ op' = "end"
  /\ errors' = {} /\ failed' = {}
  /\ streams' = [streams EXCEPT ![s].finished = TRUE, ![s].waiters = {}]
  /\ closeCalls' = [k \in 1..Len(closeCalls) |->
                      IF k \in streams[s].waiters
                      THEN [closeCalls[k] EXCEPT !.pc = "resolved"]
                      ELSE closeCalls[k]]
  /\ writeStream' = IF streams[s].waiters # {} THEN 0 ELSE writeStream
  /\ UNCHANGED <<fileConfig, buffer, currentFileSize, isClosed, dir, inodes,
                 accepted, rotations, writeErrors, issuedLog, loggerRest>>

\* new FileTransport({ filePath, maxFileSize, maxFiles, bufferSize }): the
\* file at the base path is absent, or left by an earlier run with one line
\* (line 0); the stream is created and not yet opened.
InitFile ==
  /\ maxHistory = MaxHistoryCfg
  /\ minLogLevel = "warn"
  /\ entries = <<>>
  /\ history = <<>>
  /\ listeners = <<>>
  /\ received = [l \in ListenerIds |-> <<>>]
  /\ tlog = [t \in TransportIds |-> <<>>]
  /\ pending = {}
  /\ errors = {}
  /\ failed = {}
  /\ active = [l \in ListenerIds |-> FALSE]
  /\ returned = 0
  /\ unhandled = {}
  /\ snapshot = <<>>
  /\ callerArr = "none"
  /\ defaultMetadata = <<>>
  /\ correlationIdGenerator = "none"
  /\ genLog = <<>>
  /\ argsLog = <<>>
  /\ tcaps = DefaultCaps
  /\ CloseNotCalled
  /\ SideIdle
  /\ maxFileSize \in 1..MaxFileSizeCfg
  /\ maxFiles \in 1..MaxFilesCfg
  /\ bufferSize \in 1..MaxBufferSize
  /\ buffer = <<>>
  /\ \E existing \in BOOLEAN :
       /\ inodes = IF existing THEN <<(<<0>>)>> ELSE <<>>
       /\ dir = [i \in 0..MaxFilesCfg |-> IF existing /\ i = 0 THEN 1 ELSE 0]
       /\ currentFileSize = IF existing THEN ContentLength(<<0>>) ELSE 0
  /\ streams = <<NewStream>>
  /\ writeStream = 1
  /\ isClosed = FALSE
  /\ closeCalls = <<>>
  /\ accepted = 0
  /\ rotations = 0
  /\ writeErrors = 0
  /\ issuedLog = <<>>
  /\ op = "new"

FileNext ==
  \/ FtLog
  \/ FtFlush
  \/ FtClose
  \/ \E s \in 1..MaxLines + 1 : StreamOpens(s)
  \/ \E s \in 1..MaxLines + 1 : WriteCompletes(s)
  \/ \E s \in 1..MaxLines + 1 : WriteFails(s)
  \/ \E s \in 1..MaxLines + 1 : StreamEnds(s)

SpecFile == InitFile /\ [][FileNext]_vars

\* What the file system owes the streams: to open them, to perform or fail
\* the writes queued on them, and to finish those that were ended.
StreamStep ==
  \E s \in 1..MaxLines + 1 :
    StreamOpens(s) \/ WriteCompletes(s) \/ WriteFails(s) \/ StreamEnds(s)

\* The file system eventually performs every operation handed to it.
SpecFileFair == SpecFile /\ WF_vars(StreamStep)

\* ------------------------------------------------------------ properties
Prio(level) == LOG_LEVEL_PRIORITY[level]

\* The references of the entries created so far, in the order of the calls.
Calls == [k \in 1..Len(entries) |-> k]

PassesGate(k) == Prio(entries[k].level) >= Prio(minLogLevel)

\* The last n elements of s (all of s when it has fewer).
KeepLast(s, n) == SubSeq(s, IF Len(s) > n THEN Len(s) - n + 1 ELSE 1, Len(s))

Last(s) == s[Len(s)]

InCallOrder(s) == \A i, j \in 1..Len(s) : i < j => s[i] < s[j]

\* A step is a logging call; NewEntry is the entry it creates.
IsLogStep == Len(entries') = Len(entries) + 1

NewEntry == Len(entries) + 1

\* C1: each transport's log() has been invoked with exactly the entries whose
\* level priority is at least that of minLogLevel, once each, in the order of
\* the logging calls.
C1_TransportsGetPassingEntries ==
  \A t \in TransportIds : tlog[t] = SelectSeq(Calls, PassesGate)

C1_Witness ==
  /\ Len(entries) = 3
  /\ ~PassesGate(2)
  /\ entries[1].level = "warn"
  /\ tlog["t3"] = <<1, 3>>

\* C2: a logging call below minLogLevel invokes no transport, and still
\* appends its entry to history (under the capacity rule) and invokes every
\* listener subscribed at the time; no transport ever holds such an entry.
C2_BelowMinimumSkipsTransportsOnly ==
  /\ [](\A t \in TransportIds : \A i \in 1..Len(tlog[t]) : PassesGate(tlog[t][i]))
  /\ [][(IsLogStep /\ Prio(entries'[NewEntry].level) < Prio(minLogLevel)) =>
          /\ tlog' = tlog
          /\ pending' = pending
          /\ history' = KeepLast(Append(history, NewEntry), maxHistory)
          /\ \A l \in ListenerIds :
               received'[l] = IF l \in Range(listeners)
                              THEN Append(received[l], NewEntry)
                              ELSE received[l]]_vars

C2_Witness ==
  /\ entries # <<>>
  /\ ~PassesGate(Len(entries))
  /\ history # <<>> /\ Last(history) = Len(entries)
  /\ \E l \in ListenerIds : received[l] # <<>> /\ Last(received[l]) = Len(entries)
  /\ \A t \in TransportIds : Len(entries) \notin Range(tlog[t])

\* C3: history never holds more than maxHistory entries, and it holds the
\* last maxHistory entries logged (all of them while there are fewer), oldest
\* first.
C3_HistoryIsLastMaxHistory ==
  /\ Len(history) <= maxHistory
  /\ history = KeepLast(Calls, maxHistory)

C3_Witness ==
  /\ maxHistory >= 1
  /\ Len(entries) > maxHistory
  /\ Len(history) = maxHistory
  /\ history[1] = Len(entries) - maxHistory + 1

\* C4: history and every listener's deliveries are in the order of the
\* logging calls, the newest entry last, and the settling of a transport's
\* promise changes neither.
C4_CallOrder ==
  /\ [](/\ InCallOrder(history)
        /\ \A i \in 1..Len(history) : history[i] = Len(entries) - Len(history) + i
        /\ \A l \in ListenerIds : InCallOrder(received[l]))
  /\ [][~IsLogStep => (history' = history /\ received' = received)]_vars

C4_Witness ==
  /\ <<"t2", 1>> \in pending
  /\ <<"t2", 2>> \notin pending
  /\ 2 \in Range(tlog["t2"])
  /\ history = <<1, 2>>
  /\ \E l \in ListenerIds : received[l] = <<1, 2>>

\* C5: a logging call invokes a listener exactly when the listener's last
\* subscribe/unsubscribe was a subscribe; nothing else invokes a listener.
C5_SubscribedWindow ==
  [][/\ IsLogStep =>
          \A l \in ListenerIds :
             received'[l] = IF active[l] THEN Append(received[l], NewEntry)
                            ELSE received[l]
     /\ ~IsLogStep => received' = received]_vars

C5_Witness ==
  \E l \in ListenerIds :
    /\ ~active[l]
    /\ Len(entries) = 3
    /\ received[l] = <<2>>

\* C6: in a logging call in which a listener throws, every subscribed
\* listener is invoked with the entry, every transport is when the entry
\* passes the level gate, and the throw is reported as a listener error.
C6_ThrowingListenerIsolated ==
  [][(IsLogStep /\ \E f \in failed' : f.kind = "listener") =>
       /\ \A l \in Range(listeners) : received'[l] = Append(received[l], NewEntry)
       /\ Prio(entries'[NewEntry].level) >= Prio(minLogLevel) =>
            \A t \in TransportIds : tlog'[t] = Append(tlog[t], NewEntry)
       /\ \A f \in failed' : f.kind = "listener" => f \in errors']_vars

C6_Witness ==
  /\ listeners = <<"l2", "l1">>
  /\ \E f \in failed :
       /\ f.kind = "listener" /\ f.who = "l2" /\ f.e = Len(entries)
       /\ f \in errors
  /\ received["l1"] # <<>> /\ Last(received["l1"]) = Len(entries)
  /\ \A t \in TransportIds : tlog[t] # <<>> /\ Last(tlog[t]) = Len(entries)

\* C7: whatever failed, in a listener or in a transport's log(), every logging
\* call made has returned, no rejection of emit's promise is left unhandled,
\* and history holds the entries the capacity rule keeps, the newest last.
C7_FailuresDoNotReachCaller ==
  /\ returned = Len(entries)
  /\ unhandled = {}
  /\ history = KeepLast(Calls, maxHistory)
  /\ (entries # <<>> /\ maxHistory >= 1) => Len(entries) \in Range(history)

C7_Witness ==
  /\ Len(entries) = 2
  /\ returned = 2
  /\ maxHistory = 2
  /\ history = <<1, 2>>
  /\ \E f \in failed : f.kind = "transport" /\ f.who = "t2" /\ f.e = 1

\* C8: a logging call that passes the level gate invokes every transport's
\* log(), whatever the other transports' log() did (threw, or returned a
\* promise that is still pending or was rejected), and every transport
\* failure is reported as a transport error.
C8_TransportsIsolated ==
  [][/\ (IsLogStep /\ Prio(entries'[NewEntry].level) >= Prio(minLogLevel)) =>
          \A t \in TransportIds : tlog'[t] = Append(tlog[t], NewEntry)
     /\ \A f \in failed' : f.kind = "transport" => f \in errors']_vars

C8_Witness ==
  /\ Len(entries) = 2
  /\ <<"t2", 1>> \in pending
  /\ [kind |-> "transport", who |-> "t1", e |-> 2] \in failed \cap errors
  /\ \A t \in TransportIds : tlog[t] = <<1, 2>>

\* C9: every logging call made has returned, while promises of transports'
\* log() of that call or of earlier calls are still pending.
C9_LogDoesNotWait ==
  \A p \in pending : returned >= p[2] /\ returned = Len(entries)

C9_Witness ==
  /\ Len(entries) = 3
  /\ returned = 3
  /\ {<<"t2", 1>>, <<"t2", 3>>} \subseteq pending

\* What a getHistory() call would show: the history array with the fields of
\* the entries it refers to.
HistoryView == [i \in 1..Len(history) |-> entries[history[i]]]

C11_MetadataIsDefaultsOverlaid ==
  \A k \in 1..Len(entries) :
    LET md == entries[k].metadata
        arg == argsLog[k]
    IN /\ md \in MetadataObjects
       /\ ~arg.supplied => md = defaultMetadata
       /\ arg.supplied =>
            /\ DOMAIN md = DOMAIN defaultMetadata \cup DOMAIN arg.obj
            /\ \A key \in DOMAIN arg.obj : md[key] = arg.obj[key]
            /\ \A key \in DOMAIN defaultMetadata \ DOMAIN arg.obj :
                 md[key] = defaultMetadata[key]

C11_Witness ==
  /\ DOMAIN defaultMetadata = {"a", "b"}
  /\ Len(entries) = 2
  /\ argsLog[1].supplied /\ DOMAIN argsLog[1].obj = {"a"}
  /\ entries[1].metadata["a"] = "s" /\ entries[1].metadata["b"] = "d"
  /\ ~argsLog[2].supplied
  /\ entries[2].metadata = defaultMetadata

\* C12: with a custom id generator, the generator has returned exactly one
\* value per logging call made, whatever the level, and the k-th entry carries
\* the k-th value; history and the transports hold the entries, hence the ids,
\* in call order.
C12_IdsFromGeneratorInCallOrder ==
  correlationIdGenerator = "custom" =>
    /\ Len(genLog) = Len(entries)
    /\ \A k \in 1..Len(entries) : entries[k].id = genLog[k]
    /\ [i \in 1..Len(history) |-> entries[history[i]].id]
         = KeepLast(genLog, maxHistory)
    /\ \A t \in TransportIds :
         [i \in 1..Len(tlog[t]) |-> entries[tlog[t][i]].id]
           = [i \in 1..Len(tlog[t]) |-> genLog[tlog[t][i]]]

C12_Witness ==
  /\ Len(entries) = 3
  /\ genLog = <<"custom-1", "custom-2", "custom-1">>
  /\ ~PassesGate(2)
  /\ entries[2].id = "custom-2"
  /\ entries[3].id = "custom-1"
  /\ tlog["t1"] = <<1, 3>>

\* C13 as claimed: when logger.close() has resolved, every transport that
\* defines flush() has had it invoked, every transport that defines close()
\* has had it invoked, and where both are defined flush() had completed
\* before close() was invoked.
C13_AllFlushedAndClosed ==
  closeResult = "resolved" =>
    \A t \in TransportIds :
      /\ "flush" \in tcaps[t] => tflush[t] # "no"
      /\ "close" \in tcaps[t] => tclose[t] # "no"
      /\ tcaps[t] = {"flush", "close"} /\ tclose[t] # "no" => tflush[t] = "completed"

\* C14: logger.close() never rejects, and once every returned value has
\* settled it resolves; every failure of a flush() or close() is reported;
\* and when it has resolved, each transport none of whose own methods failed
\* has had the methods it defines invoked and completed.
C14_CloseNeverRejects ==
  /\ [](closeResult # "rejected")
  /\ [][\A f \in failed' : f.kind = "close" => f \in errors']_vars
  /\ [](closeResult = "resolved" =>
          \A t \in TransportIds :
            (tflush[t] # "failed" /\ tclose[t] # "failed") =>
              /\ "flush" \in tcaps[t] => tflush[t] = "completed"
              /\ "close" \in tcaps[t] => tclose[t] = "completed")
  /\ (closeResult = "pending" ~> closeResult = "resolved")

C14_Witness ==
  /\ closeResult = "resolved"
  /\ tcaps = [t \in TransportIds |-> {"flush", "close"}]
  /\ tflush["t1"] = "failed"
  /\ tclose["t2"] = "failed" /\ tflush["t2"] = "completed"
  /\ tflush["t3"] = "completed" /\ tclose["t3"] = "completed"

\* The lines ever written to a file, and the lines of the file at suffix i.
Written == UNION {Range(inodes[i]) : i \in 1..Len(inodes)}

FileLines(i) == IF dir[i] = 0 THEN <<>> ELSE inodes[dir[i]]

\* Every stream is open and no write is in flight.
Quiescent == \A s \in 1..Len(streams) : streams[s].opened /\ streams[s].queue = <<>>

CloseResolved == \E k \in 1..Len(closeCalls) : closeCalls[k].pc = "resolved"

C16_NoAcceptedLineLost ==
  (CloseResolved /\ writeErrors = 0 /\ Quiescent) =>
    (1..accepted) \subseteq Written

\* A step is a log() call that pushes a line; the buffer it leaves for flush.
IsPush == op' = "log" /\ accepted' = accepted + 1

Pushed == Append(buffer, accepted + 1)

\* C17: on an open sink a log() call that leaves fewer than bufferSize lines
\* in the buffer only appends its line: it hands nothing to the stream and
\* changes no file.  A payload is handed to the stream only by a flush() call,
\* by close(), or by the log() call that brings the buffer to bufferSize
\* lines, and it is then the whole buffer; file contents change only when a
\* payload handed over earlier is written.
C17_WritesOnlyOnFlushOrThreshold ==
  [][/\ (IsPush /\ Len(Pushed) < bufferSize) =>
          /\ buffer' = Pushed
          /\ issuedLog' = issuedLog
          /\ inodes' = inodes /\ dir' = dir /\ streams' = streams
     /\ (IsPush /\ Len(Pushed) >= bufferSize) =>
          /\ buffer' = <<>>
          /\ issuedLog' = Append(issuedLog, Pushed)
     /\ (op' = "flush" /\ ~isClosed /\ buffer # <<>>) =>
          /\ buffer' = <<>>
          /\ issuedLog' = Append(issuedLog, buffer)
     /\ issuedLog' # issuedLog =>
          \/ op' \in {"flush", "close"}
          \/ IsPush /\ Len(Pushed) >= bufferSize
     /\ (\E i \in 1..Len(inodes) : inodes'[i] # inodes[i]) =>
          /\ op' = "write"
          /\ \E i \in 1..Len(inodes), j \in 1..Len(issuedLog) :
               inodes'[i] = inodes[i] \o issuedLog[j]]_vars

C17_Witness ==
  /\ bufferSize = 2
  /\ ~isClosed
  /\ op = "log"
  /\ issuedLog = <<(<<1, 2>>)>>
  /\ buffer = <<3>>
  /\ FileLines(0) = <<1, 2>>

\* The suffixes of the rotated copies that exist.
RotatedCopies == {i \in DOMAIN dir : i >= 1 /\ dir[i] # 0}

IsRotation == rotations' = rotations + 1

\* C18 as claimed: at most maxFiles rotated copies exist, and once a rotation
\* has occurred with maxFiles >= 2 (and every stream has opened, nothing is in
\* flight and no write has failed) the active file and path.1 both exist.
C18_RotatedCopyExists ==
  /\ Cardinality(RotatedCopies) <= maxFiles
  /\ (rotations >= 1 /\ maxFiles >= 2 /\ Quiescent /\ writeErrors = 0) =>
       (dir[0] # 0 /\ dir[1] # 0)

\* C18 as amended: at most maxFiles rotated copies exist (none at a suffix
\* of maxFiles or more); a rotation with maxFiles >= 2 that finds the active
\* file in place leaves that file as path.1; and after a rotation the active
\* file exists again once every stream has opened.
C18_RetentionCap ==
  /\ [](/\ Cardinality(RotatedCopies) <= maxFiles
        /\ \A i \in RotatedCopies : i < maxFiles)
  /\ [][(IsRotation /\ maxFiles >= 2 /\ dir[0] # 0) =>
          (dir'[1] = dir[0] /\ dir'[0] = 0)]_vars
  /\ []((rotations >= 1 /\ Quiescent) => dir[0] # 0)

C18_Witness ==
  /\ maxFiles = 2
  /\ rotations = 2
  /\ Quiescent
  /\ FileLines(1) = <<1>>
  /\ FileLines(0) = <<2>>
  /\ Written = {0, 1, 2}

Increasing(c) == \A a, b \in 1..Len(c) : a < b => c[a] < c[b]

\* C19 as claimed: in every file that exists the lines are in the order of
\* the log() calls, and every line of a file at a higher suffix was logged
\* before every line of a file at a lower suffix (suffix 0: the active file).
C19_LinesInLogOrder ==
  /\ \A i \in DOMAIN dir : Increasing(FileLines(i))
  /\ \A i, j \in DOMAIN dir :
       i < j => \A x \in Range(FileLines(i)), y \in Range(FileLines(j)) : y < x

\* C20: once a close() call has resolved, a log() or flush() call changes
\* neither the buffer, nor the tracked size, nor the files, and hands nothing
\* to a stream.
C20_NoOpsAfterClose ==
  [][(CloseResolved /\ op' \in {"log", "flush"}) =>
       UNCHANGED <<buffer, currentFileSize, dir, inodes, streams, writeStream,
                   issuedLog, accepted, rotations>>]_vars

C20_Witness ==
  /\ CloseResolved
  /\ isClosed
  /\ op = "log"
  /\ accepted = 1
  /\ buffer = <<>>
  /\ FileLines(0) = <<1>>

\* The number of places line l holds in the files created so far.
Occurrences(l) ==
  Cardinality({p \in (1..Len(inodes)) \X (1..MaxLines + 1) :
                 p[2] <= Len(inodes[p[1]]) /\ inodes[p[1]][p[2]] = l})

\* Calls j < k of close() overlap: both found the sink open, so k was issued
\* before j had set the closed flag.
Overlap(j, k) ==
  /\ j \in 1..Len(closeCalls) /\ k \in 1..Len(closeCalls) /\ j < k
  /\ closeCalls[j].open /\ closeCalls[k].open

BothResolved(j, k) ==
  /\ Overlap(j, k)
  /\ closeCalls[j].pc = "resolved" /\ closeCalls[k].pc = "resolved"

\* C21: a close() call made after a close() has resolved resolves at once and
\* changes nothing of the sink, the streams or the files.  No line is ever
\* written twice.  The end callback of a close() call that has ended the
\* stream is held by a stream that has not finished yet.  Two overlapping
\* close() calls, when no write fails, both resolve; and once both have
\* resolved the sink is closed, its stream released, and every line either
\* call found in the buffer is in the files exactly once.
C21_CloseIsIdempotent ==
  /\ [][(op' = "close" /\ Len(closeCalls') = Len(closeCalls) + 1 /\ CloseResolved) =>
          /\ Last(closeCalls').pc = "resolved"
          /\ UNCHANGED <<fileConfig, buffer, currentFileSize, writeStream, isClosed,
                         streams, dir, inodes, accepted, rotations, writeErrors,
                         issuedLog>>]_vars
  /\ [](\A l \in 1..accepted : Occurrences(l) <= 1)
  /\ [](\A k \in 1..Len(closeCalls) :
          closeCalls[k].pc = "ending" =>
            \E s \in 1..Len(streams) : ~streams[s].finished /\ k \in streams[s].waiters)
  /\ [](\A j, k \in 1..MaxCloseCalls :
          (BothResolved(j, k) /\ writeErrors = 0) =>
            /\ isClosed /\ writeStream = 0
            /\ \A l \in Range(closeCalls[j].lines) \cup Range(closeCalls[k].lines) :
                 Occurrences(l) = 1)
  /\ \A j, k \in 1..MaxCloseCalls :
       Overlap(j, k) ~> (writeErrors > 0 \/ BothResolved(j, k))

C21_Witness ==
  /\ BothResolved(1, 2)
  /\ writeErrors = 0
  /\ closeCalls[1].lines = <<1>>
  /\ closeCalls[2].lines = <<2>>
  /\ Occurrences(1) = 1 /\ Occurrences(2) = 1
  /\ isClosed

\* A step invokes an unsubscribe handle; the handle it invokes.
IsInvocation == Len(invocations') = Len(invocations) + 1

Invoked == Last(invocations')

\* C22 as claimed: the first invocation of a handle removes the listener the
\* handle was returned for and no other, and every later invocation of the
\* same handle leaves the subscriber set unchanged.
C22_HandleRemovesOnce ==
  [][IsInvocation =>
       IF Invoked \in Range(invocations)
       THEN listeners' = listeners
       ELSE listeners' = SetDelete(listeners, handles[Invoked])]_vars

\* A step writes to the console; what it writes.
IsConsoleWrite == Len(console') = Len(console) + 1

LastWrite == Last(console')

\* C23: a ConsoleTransport.log(entry) call makes one write to the console and
\* no other: the formatted entry, to the error stream when the level is
\* error, to the warning stream when it is warn, and to the standard stream
\* for debug, info and every other level value.
C23_OneWriteToTheLevelStream ==
  [][IsConsoleWrite =>
       LET entry == LastWrite.entry IN
       /\ console' = Append(console, LastWrite)
       /\ LastWrite.text = format(prefix, entry, platform)
       /\ entry.level = "error" => LastWrite.stream = "error"
       /\ entry.level = "warn" => LastWrite.stream = "warn"
       /\ entry.level \notin {"error", "warn"} => LastWrite.stream = "log"
       /\ UNCHANGED <<history, listeners, received, tlog>>]_vars

C23_Witness ==
  /\ Len(console) = 3
  /\ console[1].entry.level = "error" /\ console[1].stream = "error"
  /\ console[2].entry.level = "trace" /\ console[2].stream = "log"
  /\ console[3].entry.level = "warn" /\ console[3].stream = "warn"

\* C24: flushToConsole() makes one console write per history entry, in the
\* order of history (oldest first); each carries the [History] tag, is the
\* prefix, level, tag and message joined by spaces, goes to the error stream
\* for level error, the warning stream for warn and the standard stream
\* otherwise; and the call changes neither history nor the subscriber set,
\* and invokes no listener and no transport.
C24_FlushToConsoleReplaysHistory ==
  [][console' # console =>
       /\ Len(console') = Len(console) + Len(history)
       /\ SubSeq(console', 1, Len(console)) = console
       /\ \A i \in 1..Len(history) :
            LET w == console'[Len(console) + i]
                entry == entries[history[i]]
            IN /\ w.entry = entry
               /\ w.text = (IF prefix = <<>> THEN <<>> ELSE Bracket(prefix) \o <<" ">>)
                            \o <<"[", UPPER[entry.level], "]", " ", "[History]", " ",
                                 entry.message>>
               /\ w.stream = (CASE entry.level = "error" -> "error"
                                [] entry.level = "warn" -> "warn"
                                [] OTHER -> "log")
       /\ UNCHANGED <<history, entries, listeners, received, tlog, pending>>]_vars

C24_Witness ==
  /\ maxHistory = 2 /\ history = <<2, 3>>
  /\ listeners = <<"l1">> /\ received["l1"] = <<2, 3>>
  /\ prefix = <<"MyApp">>
  /\ Len(console) = 2
  /\ console[1].entry = entries[2] /\ console[1].stream = "error"
  /\ console[1].text = <<"[", "MyApp", "]", " ", "[", "ERROR", "]", " ", "[History]", " ", "m">>
  /\ console[2].entry = entries[3] /\ console[2].stream = "log"

\* C25: what TextFormatter.format returns is '[prefix]' (only when the
\* prefix is not empty), '[LEVEL]', a space and the message, then a space
\* and the JSON text of the metadata (only when metadata is present and has a
\* key), then ' [platform/version]' (only when platform info is passed).
\* Level info, message 'Test message', no prefix, no metadata and no platform
\* info give exactly '[INFO] Test message'.
C25_TextFormatSegments ==
  fmtResult # <<>> =>
    LET a == fmtArgs
        entry == a.entry
        prefixSegment == IF a.pfx = <<>> THEN <<>> ELSE <<"[">> \o a.pfx \o <<"]">>
        metadataSegment ==
          IF ~entry.metadata.supplied \/ DOMAIN entry.metadata.obj = {} THEN <<>>
          ELSE <<" ">> \o JSONStringify(entry.metadata.obj)
        platformSegment ==
          IF ~a.platformInfo.given THEN <<>>
          ELSE <<" ", "[", a.platformInfo.platform, "/", a.platformInfo.version, "]">>
    IN /\ fmtResult = prefixSegment \o <<"[", UPPER[entry.level], "]", " ">>
                       \o entry.message \o metadataSegment \o platformSegment
       /\ (/\ a.pfx = <<>> /\ entry.level = "info"
           /\ entry.message = <<"Test message">>
           /\ entry.metadata = NoMetadata /\ a.platformInfo = NoPlatform) =>
            fmtResult = <<"[", "INFO", "]", " ", "Test message">>
       /\ (entry.metadata = Supplied([k \in {"a"} |-> "d"]) /\ ~a.platformInfo.given) =>
            SubSeq(fmtResult, Len(fmtResult) - 9, Len(fmtResult)) =
              <<" ", "{", "\"", "a", "\"", ":", "\"", "d", "\"", "}">>

C25_Witness ==
  /\ fmtArgs.entry.metadata = Supplied([k \in {"a"} |-> "d"])
  /\ fmtResult = <<"[", "MyApp", "]", "[", "WARN", "]", " ", "Test message", " ",
                   "{", "\"", "a", "\"", ":", "\"", "d", "\"", "}", " ",
                   "[", "node", "/", "v18", "]">>

\* The value at path p of the metadata graph h (object 1 at the empty path),
\* and the objects on the way from object 1 to the holder of that value.
RECURSIVE ValueAt(_, _)
ValueAt(h, p) ==
  IF p = <<>> THEN Ref(1)
  ELSE LET holder == ValueAt(h, SubSeq(p, 1, Len(p) - 1)) IN
       IF holder.kind = "ref" THEN h[holder.to][Last(p)] ELSE Val("none")

OnPath(h, p) == {ValueAt(h, SubSeq(p, 1, i)).to : i \in 0..(Len(p) - 1)}

\* C26: for every metadata object graph, cyclic or not, safeStringify
\* returns (it does not throw), and in what it returns: the metadata is an
\* object; every property of an object that was gone into is there; a
\* reference to an object on the path from the metadata to the reference is
\* the string '[Circular Reference]'; an Error is an object with name,
\* message and stack; an undefined value is null; a function is the string
\* '[Function]'.
C26_SafeStringify ==
  fmtResult.called =>
    LET h == fmtArgs
        out == fmtResult.value
    IN /\ ~fmtResult.threw
       /\ <<(<<>>), Leaf("object", "")>> \in out
       /\ \A x \in out :
            LET p == x[1]
                v == ValueAt(h, p)
            IN /\ (v.kind = "ref" /\ x[2] = Leaf("object", "")) =>
                    \A k \in MetaKeys :
                      h[v.to][k].kind # "absent" =>
                        \E y \in out : y[1] = Append(p, k)
               /\ (v.kind = "ref" /\ v.to \in OnPath(h, p)) =>
                    x[2] = Leaf("string", "[Circular Reference]")
               /\ v.kind = "error" =>
                    /\ x[2] = Leaf("object", "")
                    /\ <<Append(p, "name"), Leaf("string", "Error")>> \in out
                    /\ <<Append(p, "message"), Leaf("string", "boom")>> \in out
                    /\ <<Append(p, "stack"), Leaf("string", "at f")>> \in out
               /\ v.kind = "undefined" => x[2] = Leaf("null", "")
               /\ v.kind = "function" => x[2] = Leaf("string", "[Function]")
               /\ v.kind = "string" => x[2] = Leaf("string", v.text)

\* { a: o2, b: undefined } with o2 = { a: <the metadata>, b: <a function> }
C26_Witness ==
  /\ fmtArgs[1] = [a |-> Ref(2), b |-> Val("undefined")]
  /\ fmtArgs[2] = [a |-> Ref(1), b |-> Val("function")]
  /\ fmtResult.called /\ ~fmtResult.threw
  /\ fmtResult.value =
       {<<(<<>>), Leaf("object", "")>>,
        <<(<<"a">>), Leaf("object", "")>>,
        <<(<<"a", "a">>), Leaf("string", "[Circular Reference]")>>,
        <<(<<"a", "b">>), Leaf("string", "[Function]")>>,
        <<(<<"b">>), Leaf("null", "")>>}

\* C27: a rotation leaves at each suffix 1..maxFiles-1 what was at the suffix
\* below it (at suffix 1, what was at the base path), so the file that was at
\* suffix maxFiles-1 is at no path any more; it leaves nothing at the base
\* path, changes the content of no file, ends the stream in use, sets the
\* tracked size to 0 and makes a new stream for the base path the stream in
\* use.
C27_RotationShiftsByOne ==
  [][IsRotation =>
       /\ dir'[0] = 0
       /\ \A j \in 1..(maxFiles - 1) : dir'[j] = dir[j - 1]
       /\ \A j \in maxFiles..MaxFilesCfg : dir'[j] = 0
       /\ dir[maxFiles - 1] # 0 => \A j \in DOMAIN dir : dir'[j] # dir[maxFiles - 1]
       /\ inodes' = inodes
       /\ currentFileSize' = 0
       /\ writeStream # 0 => streams'[writeStream].ended
       /\ writeStream' = Len(streams) + 1
       /\ Len(streams') = Len(streams) + 1
       /\ ~streams'[writeStream'].opened /\ ~streams'[writeStream'].ended]_vars

C27_Witness ==
  /\ maxFiles = 3
  /\ rotations = 2
  /\ dir[0] = 0
  /\ FileLines(1) = <<1>>
  /\ FileLines(2) = <<0>>
  /\ currentFileSize = 0
  /\ writeStream = 3 /\ ~streams[3].opened /\ streams[2].ended

\* The number of times line l is in sequence c, and the number of times it
\* has been handed to a stream.
CountIn(c, l) == Cardinality({i \in 1..Len(c) : c[i] = l})

Handed(l) ==
  Cardinality({p \in (1..Len(issuedLog)) \X (1..MaxLines) :
                 p[2] <= Len(issuedLog[p[1]]) /\ issuedLog[p[1]][p[2]] = l})

\* A write is in flight: handed to a stream and not yet performed.
InFlight == \E s \in 1..Len(streams) : streams[s].queue # <<>>

\* C28: every line log() has accepted is either in the buffer, once, or has
\* been handed to a stream, once, and never both.  A flush() on an open sink
\* with lines in the buffer hands them all to the stream in use as one write
\* and leaves the buffer empty in the same step, before the write is
\* performed.  A log() call made while a write is in flight, below the
\* threshold, appends its line to the buffer and touches no write in flight.
C28_EachLineHandedOnce ==
  /\ [](\A l \in 1..accepted : CountIn(buffer, l) + Handed(l) = 1)
  /\ [][(op' = "flush" /\ ~isClosed /\ buffer # <<>>) =>
          /\ buffer' = <<>>
          /\ issuedLog' = Append(issuedLog, buffer)
          /\ Last(streams'[writeStream'].queue).lines = buffer
          /\ inodes' = inodes]_vars
  /\ [][(IsPush /\ InFlight /\ Len(Pushed) < bufferSize) =>
          /\ buffer' = Pushed
          /\ streams' = streams
          /\ issuedLog' = issuedLog]_vars

C28_Witness ==
  /\ ~isClosed /\ closeCalls = <<>>
  /\ bufferSize = 2
  /\ accepted = 3
  /\ issuedLog = <<(<<1>>), (<<2>>)>>
  /\ Len(streams[1].queue) = 2
  /\ buffer = <<3>>

\* The stream whose oldest queued write the step has taken off its queue.
Settled(s) ==
  /\ s \in 1..Len(streams)
  /\ streams[s].queue # <<>>
  /\ streams'[s].queue = Tail(streams[s].queue)

\* C29: a step in which a write fails reports the failure with its payload,
\* takes the payload off the stream's queue, and leaves the tracked size, the
\* buffer, the files and the payloads handed over as they are; a line handed
\* to a stream is never in the buffer again and never handed over a second
\* time.  A step in which a write succeeds appends the payload to one file
\* and adds the payload's length to the tracked size.
C29_FailedWriteIsDropped ==
  /\ [][op' = "fail" =>
          \E s \in 1..MaxLines + 1 :
            /\ Settled(s)
            /\ \E r \in errors' : r.kind = "write" /\ r.e = Head(streams[s].queue).lines
            /\ failed' \subseteq errors'
            /\ currentFileSize' = currentFileSize
            /\ buffer' = buffer
            /\ issuedLog' = issuedLog
            /\ inodes' = inodes /\ dir' = dir]_vars
  /\ [](\A l \in 1..accepted :
          Handed(l) <= 1 /\ (Handed(l) = 1 => CountIn(buffer, l) = 0))
  /\ [][op' = "write" =>
          \E s \in 1..MaxLines + 1 :
            /\ Settled(s)
            /\ currentFileSize' =
                 currentFileSize + ContentLength(Head(streams[s].queue).lines)
            /\ inodes' = [inodes EXCEPT ![streams[s].inode] =
                                          @ \o Head(streams[s].queue).lines]
            /\ buffer' = buffer]_vars

C29_Witness ==
  /\ op = "fail"
  /\ writeErrors = 1
  /\ errors = {[kind |-> "write", who |-> 1, e |-> <<2>>]}
  /\ issuedLog = <<(<<1>>), (<<2>>)>>
  /\ FileLines(0) = <<1>>
  /\ currentFileSize = 1
  /\ buffer = <<>>
  /\ InFlight = FALSE

\* A step hands a payload to a stream; the payload.
IsIssue == Len(issuedLog') = Len(issuedLog) + 1

Payload == Last(issuedLog')

\* C30: a step that hands a payload to a stream rotates the files if and
\* only if the tracked size plus the payload's length is greater than
\* maxFileSize (equal to it: no rotation).  Without rotation the payload is
\* queued, whole and as one write, on the stream in use; with rotation it is
\* the only write queued on the new stream, and no write is added to any
\* other stream.  A stream that opens is bound to the file at the base path;
\* a write that is performed appends its whole payload to the file its
\* stream is bound to and changes no other file.
C30_RotateIffOverMax ==
  /\ [][IsIssue =>
          /\ IsRotation <=> currentFileSize + ContentLength(Payload) > maxFileSize
          /\ ~IsRotation =>
               /\ writeStream' = writeStream
               /\ streams'[writeStream].queue =
                    Append(streams[writeStream].queue,
                           Last(streams'[writeStream].queue))
               /\ Last(streams'[writeStream].queue).lines = Payload
               /\ dir' = dir
          /\ IsRotation =>
               /\ Len(streams'[writeStream'].queue) = 1
               /\ streams'[writeStream'].queue[1].lines = Payload
               /\ \A s \in 1..Len(streams) : streams'[s].queue = streams[s].queue]_vars
  /\ [][op' = "open" =>
          \E s \in 1..MaxLines + 1 :
            /\ s \in 1..Len(streams)
            /\ ~streams[s].opened /\ streams'[s].opened
            /\ dir'[0] # 0 /\ streams'[s].inode = dir'[0]]_vars
  /\ [][op' = "write" =>
          \E s \in 1..MaxLines + 1 :
            /\ Settled(s)
            /\ \A i \in 1..Len(inodes) :
                 inodes'[i] = IF i = streams[s].inode
                              THEN inodes[i] \o Head(streams[s].queue).lines
                              ELSE inodes[i]]_vars

C30_Witness ==
  /\ maxFileSize = 2
  /\ issuedLog = <<(<<1>>), (<<2>>), (<<3>>)>>
  /\ rotations = 1
  /\ FileLines(1) = <<1, 2>>
  /\ FileLines(0) = <<3>>
  /\ currentFileSize = 1

\* C31: on an open sink the buffer holds fewer than bufferSize lines between
\* calls: the log() call that brings it to bufferSize lines empties it before
\* it returns, and that call hands the stream exactly those lines.
C31_BufferBelowThreshold ==
  /\ [](~isClosed => Len(buffer) < bufferSize)
  /\ [][(IsPush /\ Len(Pushed) >= bufferSize) =>
          /\ buffer' = <<>>
          /\ issuedLog' = Append(issuedLog, Pushed)]_vars

C31_Witness ==
  /\ op = "log"
  /\ ~isClosed
  /\ bufferSize = 2
  /\ accepted = 2
  /\ buffer = <<>>
  /\ issuedLog = <<(<<1, 2>>)>>

\* The output handle has been ended (or released after it finished).
HandleEnded == writeStream = 0 \/ streams[writeStream].ended

\* C32 as claimed: once a close() call has settled, resolved or rejected, the
\* sink is closed and its output handle ended.
C32_SettledCloseIsClosed ==
  \A k \in 1..Len(closeCalls) :
    closeCalls[k].pc \in {"resolved", "rejected"} => isClosed /\ HandleEnded

\* C33 as claimed: once a close() call that found the sink open has resolved,
\* no stream, current or rotated away, still holds a write to perform.
C33_NoWriteInFlightAfterClose ==
  \A k \in 1..Len(closeCalls) :
    (closeCalls[k].open /\ closeCalls[k].pc = "resolved") => ~InFlight

\* C34 as claimed: whenever no write is in flight, currentFileSize is the
\* length of what the active file holds (what it held at construction and
\* what has been written to it since).
C34_TrackedSizeIsFileSize ==
  ~InFlight => currentFileSize = ContentLength(FileLines(0))

\* C35 as claimed: as long as no payload handed to a stream is longer than
\* maxFileSize, the active file never holds more than maxFileSize.
C35_ActiveFileWithinMax ==
  (\A i \in 1..Len(issuedLog) : ContentLength(issuedLog[i]) <= maxFileSize) =>
    ContentLength(FileLines(0)) <= maxFileSize

\* C36 as claimed: a rotation that finds the active file in place leaves
\* that file, with the lines it held, at path.1.
C36_RotationKeepsActiveFile ==
  [][(IsRotation /\ dir[0] # 0) =>
       /\ dir'[1] # 0
       /\ inodes'[dir'[1]] = inodes[dir[0]]]_vars

\* A step is a logging call of the caller; the listeners invoked with its
\* entry during the step.
IsCall == Len(entries') > Len(entries)

Notified == {l \in ListenerIds : NewEntry \in Range(received'[l])}

\* The listener that made the logging call of entry e, if one did.
Author(e) == entries[e].message

\* C37 as claimed: every transport receives the entries in the order of the
\* logging calls, and so does every listener, for the entries that were not
\* logged by that listener itself.
C37_CallOrderWithLoggingListener ==
  /\ \A t \in TransportIds : InCallOrder(tlog[t])
  /\ \A l \in ListenerIds :
       InCallOrder(SelectSeq(received[l], LAMBDA e : Author(e) # l))

\* C38 as claimed: the listeners invoked with the entry of a logging call are
\* those subscribed when the call was made.
C38_NotifiedAreThoseSubscribedAtCall ==
  [][IsCall => Notified = Range(listeners)]_vars

\* C39 as claimed: when logger.close() has resolved, a transport that defines
\* close() and whose flush() threw or rejected has had its close() invoked.
C39_FailedFlushStillCloses ==
  closeResult = "resolved" =>
    \A t \in TransportIds :
      ("close" \in tcaps[t] /\ tflush[t] = "failed") => tclose[t] # "no"
====
